---- MODULE Spec2Model ----
(***************************************************************************)
(* Lease-analysis backend: the entitlement state machine (30-day pass,     *)
(* 5-analysis quota), the /analyze gate, the two payment webhook handlers, *)
(* checkout creation and the rate-limited quick-analyze endpoint, as       *)
(* implemented in routes/lease_routes.py, routes/billing_routes.py,        *)
(* routes/billing_routes_v2.py and database/operations.py.                 *)
(*                                                                         *)
(* Time is counted in whole hours.  `clock` is the UTC wall clock          *)
(* (datetime.utcnow()); datetime.now() reads clock + tz, where tz is the   *)
(* host's fixed offset from UTC.                                           *)
(***************************************************************************)
EXTENDS Integers, Sequences, FiniteSets, TLC

VARIABLES
    clock,               \* UTC wall clock, hours
    tz,                  \* host offset of datetime.now() from datetime.utcnow(), hours
    TEST_USER_BYPASS,    \* settings.TEST_USER_BYPASS
    TEST_USER_IDS,       \* settings.TEST_USER_IDS, as its comma-separated fields
    PADDLE_API_KEY,      \* os.getenv("PADDLE_API_KEY"), "" when unset
    ANALYSIS_STORE,      \* analysis id -> stored analysis
    USER_ACCESS_STORE,   \* user id -> entitlement record (a dict)
    TRANSACTIONS_STORE,  \* provider transaction id -> transaction
    QUICK_ANALYZE_RATE_LIMITS,  \* identifier -> timestamps of allowed quick requests
    IP_RATE_LIMITS,             \* client host -> timestamps of allowed quick requests
    QUICK_CLAUSE_HISTORY,       \* identifier -> latest quick results, newest first
    in_flight,                  \* /analyze coroutine -> where it is suspended, and for whom
    call                        \* a pipeline function's call: its arguments and, once it
                                \* has returned, its result

vars == <<clock, tz, TEST_USER_BYPASS, TEST_USER_IDS, PADDLE_API_KEY,
          ANALYSIS_STORE, USER_ACCESS_STORE, TRANSACTIONS_STORE,
          QUICK_ANALYZE_RATE_LIMITS, IP_RATE_LIMITS, QUICK_CLAUSE_HISTORY, in_flight,
          call>>

config == <<tz, TEST_USER_BYPASS, TEST_USER_IDS, PADDLE_API_KEY>>

quick == <<QUICK_ANALYZE_RATE_LIMITS, IP_RATE_LIMITS, QUICK_CLAUSE_HISTORY>>

----------------------------------------------------------------------------
(* Program constants *)

FULL_ANALYSIS_LEASE_LIMIT == 5

ACCESS_DAYS == 30

MAX_PAGES == 40

QUICK_CLAUSE_HISTORY_LIMIT == 3

QUICK_ANALYZE_USER_LIMIT == 3

QUICK_ANALYZE_IP_LIMIT == 20

(* timedelta(hours=24) *)
QUICK_ANALYZE_WINDOW == 24

(* Bounds of the model *)

MaxAnalyses == 6

MaxPeriods == 1

MaxTxns == 1

(* Timestamps one client host may hold in IP_RATE_LIMITS *)
MaxQuick == 1

\* /analyze requests in flight at once
MaxInFlight == 2

TxnIdSeq == <<"txn_1", "txn_2", "txn_3">>

Hours(days) == days * 24

Users == {"alice", "test_user_1"}

None == "None"

----------------------------------------------------------------------------
(* Clock readings and the ISO-8601 text the stores keep *)

utcnow == clock

now == clock + tz

isoformat(t) == <<"iso", t>>

fromisoformat(s) == s[2]

----------------------------------------------------------------------------
(* settings.should_bypass_test_user *)

(* The texts that appear as a user id or as one comma-separated field of   *)
(* TEST_USER_IDS, each with the characters it is made of.                  *)
Texts ==
    {"", " ", "alice", " alice ", "bob", "<tab>bob<lf>",
     "test_user", "test_user_1", "test_use", "Test_user_1"}

chars(text) ==
    CASE text = ""             -> <<>>
      [] text = " "            -> <<" ">>
      [] text = "alice"        -> <<"a", "l", "i", "c", "e">>
      [] text = " alice "      -> <<" ", "a", "l", "i", "c", "e", " ">>
      [] text = "bob"          -> <<"b", "o", "b">>
      [] text = "<tab>bob<lf>" -> <<"<tab>", "b", "o", "b", "<lf>">>
      [] text = "test_user"    -> <<"t", "e", "s", "t", "_", "u", "s", "e", "r">>
      [] text = "test_user_1"  -> <<"t", "e", "s", "t", "_", "u", "s", "e", "r", "_", "1">>
      [] text = "test_use"     -> <<"t", "e", "s", "t", "_", "u", "s", "e">>
      [] text = "Test_user_1"  -> <<"T", "e", "s", "t", "_", "u", "s", "e", "r", "_", "1">>

text_of(cs) == CHOOSE text \in Texts : chars(text) = cs

(* str.strip() with no argument removes leading and trailing whitespace. *)
Whitespace == {" ", "<tab>", "<lf>"}

RECURSIVE lstrip(_)
lstrip(cs) == IF cs # <<>> /\ Head(cs) \in Whitespace THEN lstrip(Tail(cs)) ELSE cs

RECURSIVE rstrip(_)
rstrip(cs) ==
    IF cs # <<>> /\ cs[Len(cs)] \in Whitespace THEN rstrip(SubSeq(cs, 1, Len(cs) - 1)) ELSE cs

strip(field) == text_of(rstrip(lstrip(chars(field))))

startswith(text, prefix) ==
    /\ Len(chars(text)) >= Len(chars(prefix))
    /\ SubSeq(chars(text), 1, Len(chars(prefix))) = chars(prefix)

startswith_test_user(user_id) == startswith(user_id, "test_user")

(* TEST_USER_IDS is held as TEST_USER_IDS.split(","): the sequence of its  *)
(* comma-separated fields, <<"">> for the empty string.                    *)
allowed_ids ==
    {strip(TEST_USER_IDS[i]) : i \in {j \in DOMAIN TEST_USER_IDS : strip(TEST_USER_IDS[j]) # ""}}

(* A bypass that does not look at the flag. *)
should_bypass_test_user_ignores_flag(user_id) ==
    startswith_test_user(user_id) \/ user_id \in allowed_ids

should_bypass_test_user(user_id) ==
    IF ~TEST_USER_BYPASS THEN FALSE
    ELSE IF startswith_test_user(user_id) THEN TRUE
    ELSE user_id \in allowed_ids

----------------------------------------------------------------------------
(* dict helpers *)

EmptyDict == [x \in {} |-> None]

Put(d, k, v) == [x \in DOMAIN d \cup {k} |-> IF x = k THEN v ELSE d[x]]

Del(d, k) == [x \in DOMAIN d \ {k} |-> d[x]]

Contains(seq, x) == \E i \in DOMAIN seq : seq[i] = x

analysis_ids_of(store, user_id) ==
    IF user_id \in DOMAIN store /\ "analysis_ids" \in DOMAIN store[user_id]
    THEN store[user_id]["analysis_ids"]
    ELSE <<>>


Response(status, body) == [status |-> status, body |-> body]

----------------------------------------------------------------------------
(* routes/lease_routes.py: check_user_access.  kind = "KeyError" is the    *)
(* exception raised by access["expires_at"] on a record without that key.  *)

Absent == "absent"

(* Variant: the quota test is analyses_count > limit. *)
check_user_access_counts_past_limit(user_id) ==
    IF user_id \notin DOMAIN USER_ACCESS_STORE
    THEN [kind |-> "ok", has_access |-> FALSE, reason |-> Absent]
    ELSE LET access == USER_ACCESS_STORE[user_id] IN
         IF "expires_at" \notin DOMAIN access
         THEN [kind |-> "KeyError", has_access |-> FALSE, reason |-> Absent]
         ELSE LET expires_at == fromisoformat(access["expires_at"])
                  analyses_count == Len(analysis_ids_of(USER_ACCESS_STORE, user_id))
              IN  IF now >= expires_at
                  THEN [kind |-> "ok", has_access |-> FALSE, reason |-> Absent]
                  ELSE IF analyses_count > FULL_ANALYSIS_LEASE_LIMIT
                  THEN [kind |-> "ok", has_access |-> FALSE, reason |-> "lease_limit_reached"]
                  ELSE [kind |-> "ok", has_access |-> TRUE, reason |-> Absent]

(* Variant: the quota test comes before the expiry test. *)
check_user_access_quota_first(user_id) ==
    IF user_id \notin DOMAIN USER_ACCESS_STORE
    THEN [kind |-> "ok", has_access |-> FALSE, reason |-> Absent]
    ELSE LET access == USER_ACCESS_STORE[user_id] IN
         IF "expires_at" \notin DOMAIN access
         THEN [kind |-> "KeyError", has_access |-> FALSE, reason |-> Absent]
         ELSE LET expires_at == fromisoformat(access["expires_at"])
                  analyses_count == Len(analysis_ids_of(USER_ACCESS_STORE, user_id))
              IN  IF analyses_count >= FULL_ANALYSIS_LEASE_LIMIT
                  THEN [kind |-> "ok", has_access |-> FALSE, reason |-> "lease_limit_reached"]
                  ELSE IF now >= expires_at
                  THEN [kind |-> "ok", has_access |-> FALSE, reason |-> Absent]
                  ELSE [kind |-> "ok", has_access |-> TRUE, reason |-> Absent]

(* Variant: the expiry comparison is inverted. *)
check_user_access_inverted_expiry(user_id) ==
    IF user_id \notin DOMAIN USER_ACCESS_STORE
    THEN [kind |-> "ok", has_access |-> FALSE, reason |-> Absent]
    ELSE LET access == USER_ACCESS_STORE[user_id] IN
         IF "expires_at" \notin DOMAIN access
         THEN [kind |-> "KeyError", has_access |-> FALSE, reason |-> Absent]
         ELSE LET expires_at == fromisoformat(access["expires_at"])
                  analyses_count == Len(analysis_ids_of(USER_ACCESS_STORE, user_id))
              IN  IF now < expires_at
                  THEN [kind |-> "ok", has_access |-> FALSE, reason |-> Absent]
                  ELSE IF analyses_count >= FULL_ANALYSIS_LEASE_LIMIT
                  THEN [kind |-> "ok", has_access |-> FALSE, reason |-> "lease_limit_reached"]
                  ELSE [kind |-> "ok", has_access |-> TRUE, reason |-> Absent]

check_user_access(user_id) ==
    IF user_id \notin DOMAIN USER_ACCESS_STORE
    THEN [kind |-> "ok", has_access |-> FALSE, reason |-> Absent]
    ELSE LET access == USER_ACCESS_STORE[user_id] IN
         IF "expires_at" \notin DOMAIN access
         THEN [kind |-> "KeyError", has_access |-> FALSE, reason |-> Absent]
         ELSE LET expires_at == fromisoformat(access["expires_at"])
                  analyses_count == Len(analysis_ids_of(USER_ACCESS_STORE, user_id))
              IN  IF now >= expires_at
                  THEN [kind |-> "ok", has_access |-> FALSE, reason |-> Absent]
                  ELSE IF analyses_count >= FULL_ANALYSIS_LEASE_LIMIT
                  THEN [kind |-> "ok", has_access |-> FALSE,
                        reason |-> "lease_limit_reached"]
                  ELSE [kind |-> "ok", has_access |-> TRUE, reason |-> Absent]

----------------------------------------------------------------------------
(* routes/lease_routes.py: POST /analyze.  A request is the requesting     *)
(* user id and what its files and the adapters do:                         *)
(*   file  "invalid"     validate_file rejects the upload (HTTP 400)       *)
(*         "unsupported" neither is_pdf nor is_image (HTTP 400)            *)
(*         "pdf_error"   pdf_to_images raises                              *)
(*         "pdf", "image" accepted                                         *)
(*   pages the number of page images collected                             *)
(*   ocr   "raise" | "empty" (no full_text) | "blank" | "text"             *)
(*   ai    "raise" (an exception in the summary / clause stage) | "ok"     *)

AnalyzeFiles == {"invalid", "unsupported", "pdf_error", "pdf", "image"}

AnalyzePages == {0, 1, MAX_PAGES, MAX_PAGES + 1}

AnalyzeOcr == {"raise", "empty", "blank", "text"}

AnalyzeAi == {"raise", "ok"}

GoodRequest == [file |-> "pdf", pages |-> 1, ocr |-> "text", ai |-> "ok"]

(* The requests tried: the good one and those that differ from it in one *)
(* respect.                                                              *)
AnalyzeRequests ==
    {req \in [file : AnalyzeFiles, pages : AnalyzePages, ocr : AnalyzeOcr, ai : AnalyzeAi] :
        Cardinality({f \in {"file", "pages", "ocr", "ai"} : req[f] # GoodRequest[f]}) <= 1}

(* uuid.uuid4(): an id no stored analysis has.  Ids are opaque tokens; the *)
(* model names the k-th analysis stored for a user <<user, k>>.           *)
uuid4(user_id) ==
    <<user_id, 1 + Cardinality({id \in DOMAIN ANALYSIS_STORE :
                                   ANALYSIS_STORE[id]["user_id"] = user_id})>>

(* Variant: every analysis of a user is stored under the user's first id. *)
store_analysis_reuses_id(user_id) ==
    LET analysis_id == <<user_id, 1>>
        store1 == IF user_id \notin DOMAIN USER_ACCESS_STORE
                  THEN Put(USER_ACCESS_STORE, user_id, [analysis_ids |-> <<>>])
                  ELSE USER_ACCESS_STORE
        ids    == store1[user_id]["analysis_ids"]
        store2 == IF ~Contains(ids, analysis_id)
                  THEN Put(store1, user_id,
                           [store1[user_id] EXCEPT !["analysis_ids"] = Append(ids, analysis_id)])
                  ELSE store1
    IN  [response          |-> Response(200, "full_analysis"),
         ANALYSIS_STORE    |-> Put(ANALYSIS_STORE, analysis_id,
                                  [user_id |-> user_id, created_at |-> isoformat(now)]),
         USER_ACCESS_STORE |-> store2]

(* Lines 722-742: store the analysis, then record its id for the user. *)
store_analysis(user_id) ==
    LET analysis_id == uuid4(user_id)
        store1 == IF user_id \notin DOMAIN USER_ACCESS_STORE
                  THEN Put(USER_ACCESS_STORE, user_id, [analysis_ids |-> <<>>])
                  ELSE USER_ACCESS_STORE
        ids    == store1[user_id]["analysis_ids"]
        store2 == IF ~Contains(ids, analysis_id)
                  THEN Put(store1, user_id,
                           [store1[user_id] EXCEPT !["analysis_ids"] = Append(ids, analysis_id)])
                  ELSE store1
    IN  [response          |-> Response(200, "full_analysis"),
         ANALYSIS_STORE    |-> Put(ANALYSIS_STORE, analysis_id,
                                  [user_id |-> user_id, created_at |-> isoformat(now)]),
         USER_ACCESS_STORE |-> store2]

unchanged_by(response) ==
    [response          |-> response,
     ANALYSIS_STORE    |-> ANALYSIS_STORE,
     USER_ACCESS_STORE |-> USER_ACCESS_STORE]

(* Variant: the analysis is stored before the gate decides. *)
access_gate_stores_first(user_id) ==
    IF should_bypass_test_user(user_id)
    THEN store_analysis(user_id)
    ELSE LET access_info == check_user_access(user_id)
             stored == store_analysis(user_id)
         IN
         IF access_info.kind = "KeyError"
         THEN unchanged_by(Response(200, "success_false"))
         ELSE IF ~access_info.has_access
         THEN [stored EXCEPT !.response =
                  IF access_info.reason = "lease_limit_reached"
                  THEN Response(403, "quota_used_message")
                  ELSE Response(403, "pay_login_message")]
         ELSE stored

(* Variant: a reached quota does not stop the analysis. *)
access_gate_admits_limit_reached(user_id) ==
    IF should_bypass_test_user(user_id)
    THEN store_analysis(user_id)
    ELSE LET access_info == check_user_access(user_id) IN
         IF access_info.kind = "KeyError"
         THEN unchanged_by(Response(200, "success_false"))
         ELSE IF ~access_info.has_access /\ access_info.reason # "lease_limit_reached"
         THEN unchanged_by(Response(403, "pay_login_message"))
         ELSE store_analysis(user_id)

(* Lines 692-716: the access gate. *)
access_gate(user_id) ==
    IF should_bypass_test_user(user_id)
    THEN store_analysis(user_id)
    ELSE LET access_info == check_user_access(user_id) IN
         IF access_info.kind = "KeyError"
         THEN unchanged_by(Response(200, "success_false"))
         ELSE IF ~access_info.has_access
         THEN LET reason == IF access_info.reason = Absent THEN "expired"
                            ELSE access_info.reason
              IN  IF reason = "lease_limit_reached"
                  THEN unchanged_by(Response(403, "quota_used_message"))
                  ELSE unchanged_by(Response(403, "pay_login_message"))
         ELSE store_analysis(user_id)

analyze_lease(user_id, req) ==
    IF req.file = "invalid" \/ req.file = "unsupported"
    THEN unchanged_by(Response(400, "bad_request"))
    ELSE IF req.file = "pdf_error"
    THEN unchanged_by(Response(200, "success_false"))
    ELSE IF req.pages = 0
    THEN unchanged_by(Response(400, "bad_request"))
    ELSE IF req.pages > MAX_PAGES
    THEN unchanged_by(Response(400, "bad_request"))
    ELSE IF req.ocr \in {"raise", "empty", "blank"}
    THEN unchanged_by(Response(200, "success_false"))
    ELSE IF req.ai = "raise"
    THEN unchanged_by(Response(200, "success_false"))
    ELSE access_gate(user_id)

Analyze(user_id, req) ==
    LET r == analyze_lease(user_id, req) IN
    /\ Cardinality(DOMAIN r.ANALYSIS_STORE) <= MaxAnalyses
    /\ ANALYSIS_STORE' = r.ANALYSIS_STORE
    /\ USER_ACCESS_STORE' = r.USER_ACCESS_STORE
    /\ UNCHANGED <<clock, config, call, in_flight, quick, TRANSACTIONS_STORE>>

(* analyze_lease as a coroutine of the event loop.  A request that passes *)
(* file validation and OCR suspends at `await extract_lease_summary_llm`  *)
(* (line 671) and again at `await generate_sample_clauses` (line 682);    *)
(* between two suspensions, and from the last one to the return, it runs  *)
(* without interruption.  Nothing before line 692 reads or writes a       *)
(* store.                                                                 *)
Coroutines == 1..MaxInFlight

NoCall == [fn |-> "none"]

Idle == [user_id |-> None, awaiting |-> "idle"]

Suspended(user_id, awaiting) == [user_id |-> user_id, awaiting |-> awaiting]

AnalyzeBegin(user_id) ==
    \E c \in Coroutines :
        /\ in_flight[c] = Idle
        /\ \A b \in 1..(c - 1) : in_flight[b] # Idle
        /\ in_flight' = [in_flight EXCEPT
                             ![c] = Suspended(user_id, "extract_lease_summary_llm")]
        /\ UNCHANGED <<clock, config, call, quick,
                       ANALYSIS_STORE, USER_ACCESS_STORE, TRANSACTIONS_STORE>>

AnalyzeSummarized(c) ==
    /\ in_flight[c].awaiting = "extract_lease_summary_llm"
    /\ in_flight' = [in_flight EXCEPT
                         ![c] = Suspended(in_flight[c].user_id, "generate_sample_clauses")]
    /\ UNCHANGED <<clock, config, call, quick,
                   ANALYSIS_STORE, USER_ACCESS_STORE, TRANSACTIONS_STORE>>

(* Lines 683-742 in one piece: the LLM answers (or raises), then the gate *)
(* and the store.                                                         *)
AnalyzeResume(c, ai) ==
    /\ in_flight[c].awaiting = "generate_sample_clauses"
    /\ LET r == analyze_lease(in_flight[c].user_id, [GoodRequest EXCEPT !.ai = ai]) IN
       /\ Cardinality(DOMAIN r.ANALYSIS_STORE) <= MaxAnalyses
       /\ ANALYSIS_STORE' = r.ANALYSIS_STORE
       /\ USER_ACCESS_STORE' = r.USER_ACCESS_STORE
    /\ in_flight' = [in_flight EXCEPT ![c] = Idle]
    /\ UNCHANGED <<clock, config, call, quick, TRANSACTIONS_STORE>>

----------------------------------------------------------------------------
(* database/operations.py: UserAccessManager *)

(* Variant: the record is rebuilt without the consumed ids. *)
grant_access_resets_ids(user_id, expires_in_days) ==
    LET t          == utcnow
        expires_at == t + Hours(expires_in_days)
    IN  Put(USER_ACCESS_STORE, user_id,
            [paid_at      |-> isoformat(t),
             expires_at   |-> isoformat(expires_at),
             analysis_ids |-> <<>>])

(* Variant: the store is replaced by one holding only the new record. *)
grant_access_replaces_store(user_id, expires_in_days) ==
    LET t          == utcnow
        expires_at == t + Hours(expires_in_days)
    IN  Put(EmptyDict, user_id,
            [paid_at      |-> isoformat(t),
             expires_at   |-> isoformat(expires_at),
             analysis_ids |-> analysis_ids_of(USER_ACCESS_STORE, user_id)])

grant_access(user_id, expires_in_days) ==
    LET t          == utcnow
        expires_at == t + Hours(expires_in_days)
    IN  Put(USER_ACCESS_STORE, user_id,
            [paid_at      |-> isoformat(t),
             expires_at   |-> isoformat(expires_at),
             analysis_ids |-> analysis_ids_of(USER_ACCESS_STORE, user_id)])

revoke_access(user_id) ==
    IF user_id \in DOMAIN USER_ACCESS_STORE
    THEN Del(USER_ACCESS_STORE, user_id)
    ELSE USER_ACCESS_STORE

get_access_status(user_id) ==
    IF user_id \notin DOMAIN USER_ACCESS_STORE
    THEN [kind |-> "ok", has_access |-> FALSE]
    ELSE LET access == USER_ACCESS_STORE[user_id] IN
         IF "expires_at" \notin DOMAIN access
         THEN [kind |-> "KeyError", has_access |-> FALSE]
         ELSE [kind |-> "ok",
               has_access |-> utcnow < fromisoformat(access["expires_at"])]

----------------------------------------------------------------------------
(* Payment webhooks.  A request is the paddle_signature header (<<>> when   *)
(* missing or empty) and the raw body; a body that is JSON carries the      *)
(* event.  HMAC(key, body) stands for the hex HMAC-SHA256 digest.            *)

PAYMENT_SUCCESS_EVENTS ==
    {"transaction.completed", "transaction.billed", "subscription.activated"}

PAYMENT_FAILED_EVENTS == {"transaction.payment_failed", "transaction.failed"}

HMAC(key, body) == <<"hmac", key, body>>

GoodEvent ==
    [json |-> TRUE, event_type |-> "transaction.completed",
     transaction_id |-> "txn_1", user_id |-> "alice"]

GoodSignature(body) == HMAC("sk", body)

(* The requests tried, for every user id or none: the good event under a  *)
(* good signature, and those that differ from it in one respect (the      *)
(* signature, the event type, the transaction id, or a body that is not   *)
(* JSON).                                                                 *)
WebhookBodies ==
    {b \in [json : {TRUE},
            event_type : {"transaction.completed", "transaction.payment_failed",
                          "transaction.updated"},
            transaction_id : {None, "txn_1", "txn_9"},
            user_id : Users \cup {None}] :
        Cardinality({f \in {"event_type", "transaction_id"} : b[f] # GoodEvent[f]}) <= 1}
    \cup
    {[json |-> FALSE, event_type |-> "", transaction_id |-> None, user_id |-> None]}

(* A header value holding a character outside ASCII (the framework       *)
(* decodes header bytes as latin-1).                                       *)
NonAsciiSignature == <<"non_ascii">>

WebhookSignatures(body) ==
    IF body.event_type = GoodEvent.event_type /\ body.transaction_id = GoodEvent.transaction_id
    THEN {<<>>, GoodSignature(body), HMAC("forged", body), NonAsciiSignature}
    ELSE {GoodSignature(body)}

WebhookRequests ==
    UNION {{[signature |-> sig, body |-> body] : sig \in WebhookSignatures(body)} :
            body \in WebhookBodies}

(* hmac.compare_digest on two str: raises TypeError when either holds a   *)
(* non-ASCII character, otherwise tells whether they are equal.           *)
compare_digest(a, b) ==
    IF a = NonAsciiSignature \/ b = NonAsciiSignature THEN "TypeError"
    ELSE IF a = b THEN "True"
    ELSE "False"

(* services/paddle.py: verify_webhook_signature; the comparison is not    *)
(* guarded, so its TypeError reaches the caller.                          *)
verify_webhook_signature(payload, signature) ==
    IF PADDLE_API_KEY = "" THEN "True"
    ELSE compare_digest(HMAC(PADDLE_API_KEY, payload), signature)

unchanged_access(response) ==
    [response           |-> response,
     USER_ACCESS_STORE  |-> USER_ACCESS_STORE,
     TRANSACTIONS_STORE |-> TRANSACTIONS_STORE]

(* routes/billing_routes.py: POST /webhook *)
paddle_webhook(req) ==
    IF req.signature = <<>>
    THEN unchanged_access(Response(401, "Missing signature"))
    ELSE IF verify_webhook_signature(req.body, req.signature) = "TypeError"
    THEN unchanged_access(Response(500, "Webhook processing failed"))
    ELSE IF verify_webhook_signature(req.body, req.signature) = "False"
    THEN unchanged_access(Response(401, "Invalid signature"))
    ELSE IF ~req.body.json
    THEN unchanged_access(Response(500, "Webhook processing failed"))
    ELSE LET event_type == req.body.event_type
             user_id    == req.body.user_id
         IN  IF event_type \in PAYMENT_SUCCESS_EVENTS /\ user_id # None
             THEN LET t          == now
                      expires_at == isoformat(t + Hours(ACCESS_DAYS))
                  IN  [response           |-> Response(200, "success"),
                       USER_ACCESS_STORE  |->
                           Put(USER_ACCESS_STORE, user_id,
                               [paid_at      |-> isoformat(t),
                                expires_at   |-> expires_at,
                                analysis_ids |-> analysis_ids_of(USER_ACCESS_STORE, user_id)]),
                       TRANSACTIONS_STORE |-> TRANSACTIONS_STORE]
             ELSE unchanged_access(Response(200, "success"))

PaddleWebhook(req) ==
    LET r == paddle_webhook(req) IN
    /\ USER_ACCESS_STORE' = r.USER_ACCESS_STORE
    /\ UNCHANGED <<clock, config, call, in_flight, quick, ANALYSIS_STORE, TRANSACTIONS_STORE>>

(* services/paddle_billing.py: PaddleClient.__init__ raises ValueError     *)
(* unless PaddleConfig.is_configured(); product and price ids default.    *)
paddle_client_configured == PADDLE_API_KEY # ""

(* PaddleClient.verify_webhook_signature; any exception of the          *)
(* comparison is caught and answered False.                               *)
client_verify_webhook_signature(payload, signature) ==
    IF PADDLE_API_KEY = "" THEN TRUE
    ELSE compare_digest(HMAC(PADDLE_API_KEY, payload), signature) = "True"

(* database/operations.py: DatabaseOperations.  A transaction is kept as   *)
(* its owner and status; amounts, timestamps and metadata are never read. *)
update_transaction_status(store, paddle_transaction_id, status) ==
    IF paddle_transaction_id \notin DOMAIN store
    THEN store
    ELSE Put(store, paddle_transaction_id,
             [store[paddle_transaction_id] EXCEPT !["status"] = status])

(* str(uuid.uuid4()) of create_transaction: a fresh internal id, distinct  *)
(* from every provider id.                                                *)
transaction_uuid(paddle_transaction_id) == <<"uuid", paddle_transaction_id>>

create_transaction(store, paddle_transaction_id, user_id) ==
    Put(store, paddle_transaction_id,
        [id |-> transaction_uuid(paddle_transaction_id),
         user_id |-> user_id, status |-> "pending"])

get_transaction(store, paddle_transaction_id) ==
    IF paddle_transaction_id \in DOMAIN store THEN store[paddle_transaction_id] ELSE None

get_transaction_by_id(store, transaction_id) ==
    IF \E k \in DOMAIN store : store[k]["id"] = transaction_id
    THEN store[CHOOSE k \in DOMAIN store : store[k]["id"] = transaction_id]
    ELSE None

(* routes/billing_routes_v2.py: POST /webhook *)
handle_webhook(req) ==
    IF req.signature = <<>>
    THEN unchanged_access(Response(401, "Missing signature"))
    ELSE IF ~paddle_client_configured
    THEN unchanged_access(Response(500, "Webhook processing failed"))
    ELSE IF ~client_verify_webhook_signature(req.body, req.signature)
    THEN unchanged_access(Response(401, "Invalid signature"))
    ELSE IF ~req.body.json
    THEN unchanged_access(Response(500, "Webhook processing failed"))
    ELSE LET event_type     == req.body.event_type
             transaction_id == req.body.transaction_id
             user_id        == req.body.user_id
         IN  IF event_type \in PAYMENT_SUCCESS_EVENTS
             THEN IF transaction_id # None /\ user_id # None
                  THEN [response           |-> Response(200, "success"),
                        USER_ACCESS_STORE  |-> grant_access(user_id, ACCESS_DAYS),
                        TRANSACTIONS_STORE |->
                            update_transaction_status(TRANSACTIONS_STORE,
                                                      transaction_id, "completed")]
                  ELSE unchanged_access(Response(200, "success"))
             ELSE IF event_type \in PAYMENT_FAILED_EVENTS
             THEN IF transaction_id # None
                  THEN [response           |-> Response(200, "success"),
                        USER_ACCESS_STORE  |-> USER_ACCESS_STORE,
                        TRANSACTIONS_STORE |->
                            update_transaction_status(TRANSACTIONS_STORE,
                                                      transaction_id, "failed")]
                  ELSE unchanged_access(Response(200, "success"))
             ELSE unchanged_access(Response(200, "success"))

HandleWebhook(req) ==
    LET r == handle_webhook(req) IN
    /\ USER_ACCESS_STORE' = r.USER_ACCESS_STORE
    /\ TRANSACTIONS_STORE' = r.TRANSACTIONS_STORE
    /\ UNCHANGED <<clock, config, call, in_flight, quick, ANALYSIS_STORE>>

(* routes/billing_routes_v2.py: GET /transaction/{transaction_id}.  The    *)
(* path parameter is a provider id or an internal id; an id is written    *)
(* <<"txn", s>> for the provider id s and <<"uuid", s>> for the internal   *)
(* id of s's transaction.                                                 *)
TransactionQueries ==
    {<<"txn", s>> : s \in {"txn_1", "txn_9"}} \cup {<<"uuid", s>> : s \in {"txn_1", "txn_9"}}

get_transaction_status(transaction_id) ==
    LET by_paddle_id ==
            IF transaction_id[1] = "txn"
            THEN get_transaction(TRANSACTIONS_STORE, transaction_id[2])
            ELSE None
        found_by_paddle_id ==
            transaction_id[1] = "txn" /\ transaction_id[2] \in DOMAIN TRANSACTIONS_STORE
        found_by_id ==
            \E k \in DOMAIN TRANSACTIONS_STORE : TRANSACTIONS_STORE[k]["id"] = transaction_id
    IN  IF found_by_paddle_id
        THEN Response(200, [success |-> TRUE, transaction |-> by_paddle_id, error |-> None])
        ELSE IF found_by_id
        THEN Response(200, [success     |-> TRUE,
                            transaction |-> get_transaction_by_id(TRANSACTIONS_STORE,
                                                                  transaction_id),
                            error       |-> None])
        ELSE Response(200, [success     |-> FALSE,
                            transaction |-> None,
                            error       |-> "Transaction not found"])

(* routes/billing_routes_v2.py: POST /checkout/create.  `provider` is what *)
(* PaddleClient.create_checkout_session returns: "ok" with a new provider  *)
(* transaction id, or "error".                                             *)
new_transaction_id == TxnIdSeq[Cardinality(DOMAIN TRANSACTIONS_STORE) + 1]

CheckoutProviders == {"ok", "error"}

CheckoutResponse(success, checkout_url, transaction_id, error) ==
    [success |-> success, checkout_url |-> checkout_url,
     transaction_id |-> transaction_id, error |-> error]

checkout_url_of(transaction_id) == "https://checkout"

create_checkout(user_id, provider) ==
    IF ~paddle_client_configured
    THEN unchanged_access(Response(500, "Failed to create checkout"))
    ELSE LET access_status == get_access_status(user_id) IN
         IF access_status.kind = "KeyError"
         THEN unchanged_access(Response(500, "Failed to create checkout"))
         ELSE IF access_status.has_access
         THEN unchanged_access(Response(200, CheckoutResponse(TRUE, None, None, None)))
         ELSE IF provider = "error"
         THEN unchanged_access(
                  Response(200, CheckoutResponse(FALSE, None, None,
                                                 "Failed to create checkout session")))
         ELSE [response           |->
                   Response(200, CheckoutResponse(TRUE, checkout_url_of(new_transaction_id),
                                                  new_transaction_id, None)),
               USER_ACCESS_STORE  |-> USER_ACCESS_STORE,
               TRANSACTIONS_STORE |->
                   create_transaction(TRANSACTIONS_STORE, new_transaction_id, user_id)]

CreateCheckout(user_id, provider) ==
    /\ Cardinality(DOMAIN TRANSACTIONS_STORE) < MaxTxns
    /\ LET r == create_checkout(user_id, provider) IN
       TRANSACTIONS_STORE' = r.TRANSACTIONS_STORE
    /\ UNCHANGED <<clock, config, call, in_flight, quick, ANALYSIS_STORE, USER_ACCESS_STORE>>

(* routes/billing_routes.py: POST /create-checkout.  create_checkout_for_  *)
(* user raises ValueError without a provider key and an Exception when    *)
(* the provider answers an error; both come back as success=false.  The   *)
(* handler keeps no transaction record.                                   *)
create_checkout_session(user_id, provider) ==
    IF /\ user_id \in DOMAIN USER_ACCESS_STORE
       /\ "expires_at" \in DOMAIN USER_ACCESS_STORE[user_id]
       /\ now < fromisoformat(USER_ACCESS_STORE[user_id]["expires_at"])
    THEN unchanged_access(Response(200, CheckoutResponse(TRUE, None, None, None)))
    ELSE IF PADDLE_API_KEY = ""
    THEN unchanged_access(
             Response(200, CheckoutResponse(FALSE, None, None,
                                            "Payment system configuration error")))
    ELSE IF provider = "error"
    THEN unchanged_access(
             Response(200, CheckoutResponse(FALSE, None, None, "Failed to create checkout")))
    ELSE unchanged_access(
             Response(200, CheckoutResponse(TRUE, checkout_url_of(new_transaction_id),
                                            new_transaction_id, None)))

CreateCheckoutSession(user_id, provider) ==
    LET r == create_checkout_session(user_id, provider) IN
    /\ TRANSACTIONS_STORE' = r.TRANSACTIONS_STORE
    /\ UNCHANGED <<clock, config, call, in_flight, quick, ANALYSIS_STORE, USER_ACCESS_STORE>>

----------------------------------------------------------------------------
(* routes/lease_routes.py: the quick-analyze rate limiter and endpoint.    *)
(* Timestamps are datetime.now() values.                                    *)

Get(d, k, default) == IF k \in DOMAIN d THEN d[k] ELSE default

(* A clean-up that drops nothing. *)
InWindow_keeps_all(timestamps, window_start) ==
    timestamps

InWindow(timestamps, window_start) ==
    SelectSeq(timestamps, LAMBDA ts : ts > window_start)

(* A limiter that keeps every timestamp it ever recorded. *)
check_rate_limit_never_prunes(user_id, ip_address) ==
    LET window_start == now - QUICK_ANALYZE_WINDOW
        users1 == IF user_id \in DOMAIN QUICK_ANALYZE_RATE_LIMITS
                  THEN Put(QUICK_ANALYZE_RATE_LIMITS, user_id,
                           QUICK_ANALYZE_RATE_LIMITS[user_id])
                  ELSE QUICK_ANALYZE_RATE_LIMITS
        ips1   == IF ip_address \in DOMAIN IP_RATE_LIMITS
                  THEN Put(IP_RATE_LIMITS, ip_address,
                           IP_RATE_LIMITS[ip_address])
                  ELSE IP_RATE_LIMITS
        user_requests == Get(users1, user_id, <<>>)
        ip_requests   == Get(ips1, ip_address, <<>>)
        remaining_ip  == IF QUICK_ANALYZE_USER_LIMIT - Len(user_requests) > 0
                         THEN QUICK_ANALYZE_USER_LIMIT - Len(user_requests) ELSE 0
    IN  IF Len(user_requests) >= QUICK_ANALYZE_USER_LIMIT
        THEN [allowed |-> FALSE, remaining |-> 0,
              QUICK_ANALYZE_RATE_LIMITS |-> users1, IP_RATE_LIMITS |-> ips1]
        ELSE IF Len(ip_requests) >= QUICK_ANALYZE_IP_LIMIT
        THEN [allowed |-> FALSE, remaining |-> remaining_ip,
              QUICK_ANALYZE_RATE_LIMITS |-> users1, IP_RATE_LIMITS |-> ips1]
        ELSE [allowed |-> TRUE,
              remaining |-> QUICK_ANALYZE_USER_LIMIT - (Len(user_requests) + 1),
              QUICK_ANALYZE_RATE_LIMITS |-> Put(users1, user_id, Append(user_requests, now)),
              IP_RATE_LIMITS |-> Put(ips1, ip_address, Append(ip_requests, now))]

(* A limiter that records the request on the IP counter before the caps are checked. *)
check_rate_limit_records_denials(user_id, ip_address) ==
    LET window_start == now - QUICK_ANALYZE_WINDOW
        users1 == IF user_id \in DOMAIN QUICK_ANALYZE_RATE_LIMITS
                  THEN Put(QUICK_ANALYZE_RATE_LIMITS, user_id,
                           InWindow(QUICK_ANALYZE_RATE_LIMITS[user_id], window_start))
                  ELSE QUICK_ANALYZE_RATE_LIMITS
        ips1   == IF ip_address \in DOMAIN IP_RATE_LIMITS
                  THEN Put(IP_RATE_LIMITS, ip_address,
                           InWindow(IP_RATE_LIMITS[ip_address], window_start))
                  ELSE IP_RATE_LIMITS
        user_requests == Get(users1, user_id, <<>>)
        ip_requests   == Get(ips1, ip_address, <<>>)
        remaining_ip  == IF QUICK_ANALYZE_USER_LIMIT - Len(user_requests) > 0
                         THEN QUICK_ANALYZE_USER_LIMIT - Len(user_requests) ELSE 0
    IN  IF Len(user_requests) >= QUICK_ANALYZE_USER_LIMIT
        THEN [allowed |-> FALSE, remaining |-> 0,
              QUICK_ANALYZE_RATE_LIMITS |-> users1,
              IP_RATE_LIMITS |-> Put(ips1, ip_address, Append(ip_requests, now))]
        ELSE IF Len(ip_requests) >= QUICK_ANALYZE_IP_LIMIT
        THEN [allowed |-> FALSE, remaining |-> remaining_ip,
              QUICK_ANALYZE_RATE_LIMITS |-> users1, IP_RATE_LIMITS |-> ips1]
        ELSE [allowed |-> TRUE,
              remaining |-> QUICK_ANALYZE_USER_LIMIT - (Len(user_requests) + 1),
              QUICK_ANALYZE_RATE_LIMITS |-> Put(users1, user_id, Append(user_requests, now)),
              IP_RATE_LIMITS |-> Put(ips1, ip_address, Append(ip_requests, now))]

(* A limiter that reports the quota left before the request is recorded. *)
check_rate_limit_remaining_before_recording(user_id, ip_address) ==
    LET window_start == now - QUICK_ANALYZE_WINDOW
        users1 == IF user_id \in DOMAIN QUICK_ANALYZE_RATE_LIMITS
                  THEN Put(QUICK_ANALYZE_RATE_LIMITS, user_id,
                           InWindow(QUICK_ANALYZE_RATE_LIMITS[user_id], window_start))
                  ELSE QUICK_ANALYZE_RATE_LIMITS
        ips1   == IF ip_address \in DOMAIN IP_RATE_LIMITS
                  THEN Put(IP_RATE_LIMITS, ip_address,
                           InWindow(IP_RATE_LIMITS[ip_address], window_start))
                  ELSE IP_RATE_LIMITS
        user_requests == Get(users1, user_id, <<>>)
        ip_requests   == Get(ips1, ip_address, <<>>)
        remaining_ip  == IF QUICK_ANALYZE_USER_LIMIT - Len(user_requests) > 0
                         THEN QUICK_ANALYZE_USER_LIMIT - Len(user_requests) ELSE 0
    IN  IF Len(user_requests) >= QUICK_ANALYZE_USER_LIMIT
        THEN [allowed |-> FALSE, remaining |-> 0,
              QUICK_ANALYZE_RATE_LIMITS |-> users1, IP_RATE_LIMITS |-> ips1]
        ELSE IF Len(ip_requests) >= QUICK_ANALYZE_IP_LIMIT
        THEN [allowed |-> FALSE, remaining |-> remaining_ip,
              QUICK_ANALYZE_RATE_LIMITS |-> users1, IP_RATE_LIMITS |-> ips1]
        ELSE [allowed |-> TRUE,
              remaining |-> QUICK_ANALYZE_USER_LIMIT - Len(user_requests),
              QUICK_ANALYZE_RATE_LIMITS |-> Put(users1, user_id, Append(user_requests, now)),
              IP_RATE_LIMITS |-> Put(ips1, ip_address, Append(ip_requests, now))]

(* check_rate_limit: prunes both counters, then denies on a reached cap or *)
(* records the request and allows.                                          *)
check_rate_limit(user_id, ip_address) ==
    LET window_start == now - QUICK_ANALYZE_WINDOW
        users1 == IF user_id \in DOMAIN QUICK_ANALYZE_RATE_LIMITS
                  THEN Put(QUICK_ANALYZE_RATE_LIMITS, user_id,
                           InWindow(QUICK_ANALYZE_RATE_LIMITS[user_id], window_start))
                  ELSE QUICK_ANALYZE_RATE_LIMITS
        ips1   == IF ip_address \in DOMAIN IP_RATE_LIMITS
                  THEN Put(IP_RATE_LIMITS, ip_address,
                           InWindow(IP_RATE_LIMITS[ip_address], window_start))
                  ELSE IP_RATE_LIMITS
        user_requests == Get(users1, user_id, <<>>)
        ip_requests   == Get(ips1, ip_address, <<>>)
        remaining_ip  == IF QUICK_ANALYZE_USER_LIMIT - Len(user_requests) > 0
                         THEN QUICK_ANALYZE_USER_LIMIT - Len(user_requests) ELSE 0
    IN  IF Len(user_requests) >= QUICK_ANALYZE_USER_LIMIT
        THEN [allowed |-> FALSE, remaining |-> 0,
              QUICK_ANALYZE_RATE_LIMITS |-> users1, IP_RATE_LIMITS |-> ips1]
        ELSE IF Len(ip_requests) >= QUICK_ANALYZE_IP_LIMIT
        THEN [allowed |-> FALSE, remaining |-> remaining_ip,
              QUICK_ANALYZE_RATE_LIMITS |-> users1, IP_RATE_LIMITS |-> ips1]
        ELSE [allowed |-> TRUE,
              remaining |-> QUICK_ANALYZE_USER_LIMIT - (Len(user_requests) + 1),
              QUICK_ANALYZE_RATE_LIMITS |-> Put(users1, user_id, Append(user_requests, now)),
              IP_RATE_LIMITS |-> Put(ips1, ip_address, Append(ip_requests, now))]

Hosts == {"10.0.0.1"}

(* get_user_identifier: the X-User-ID header, else "ip_" + client host. *)
get_user_identifier(x_user_id, host) ==
    IF x_user_id # None /\ x_user_id # "" THEN x_user_id
    ELSE CASE host = "10.0.0.1" -> "ip_10.0.0.1"
           [] host = "10.0.0.2" -> "ip_10.0.0.2"
           [] OTHER -> "ip_unknown"

(* A quick-analyze request: the JSON body's clause_text by its kind, the   *)
(* X-User-ID header and the client host.                                    *)
QuickClauses == {"not_json", "blank", "long", "short"}

QuickRequests ==
    [clause_text : QuickClauses, x_user_id : {None}, host : Hosts]

quick_unchanged(response) ==
    [response                  |-> response,
     QUICK_ANALYZE_RATE_LIMITS |-> QUICK_ANALYZE_RATE_LIMITS,
     IP_RATE_LIMITS            |-> IP_RATE_LIMITS,
     QUICK_CLAUSE_HISTORY      |-> QUICK_CLAUSE_HISTORY]

(* A handler that asks the limiter before it looks at the clause. *)
quick_analyze_clause_limits_first(req) ==
    IF req.clause_text = "not_json"
    THEN quick_unchanged(Response(500, "error"))
    ELSE LET user_id == get_user_identifier(req.x_user_id, req.host)
             limit   == check_rate_limit(user_id, req.host)
             result  == [created_at |-> isoformat(now)]
             history == <<result>> \o Get(QUICK_CLAUSE_HISTORY, user_id, <<>>)
             kept    == SubSeq(history, 1,
                               IF Len(history) < QUICK_CLAUSE_HISTORY_LIMIT
                               THEN Len(history) ELSE QUICK_CLAUSE_HISTORY_LIMIT)
             after(response) ==
                 [response                  |-> response,
                  QUICK_ANALYZE_RATE_LIMITS |-> limit.QUICK_ANALYZE_RATE_LIMITS,
                  IP_RATE_LIMITS            |-> limit.IP_RATE_LIMITS,
                  QUICK_CLAUSE_HISTORY      |-> QUICK_CLAUSE_HISTORY]
         IN  IF ~limit.allowed
             THEN after(Response(429, [error   |-> "limit_reached",
                                       message |-> "used_3_free_previews"]))
             ELSE IF req.clause_text = "blank"
             THEN after(Response(400, "paste_one_clause"))
             ELSE IF req.clause_text = "long"
             THEN after(Response(400, "clause_too_long"))
             ELSE [response                  |-> Response(200, "quick_result"),
                   remaining_quota_today     |-> limit.remaining,
                   QUICK_ANALYZE_RATE_LIMITS |-> limit.QUICK_ANALYZE_RATE_LIMITS,
                   IP_RATE_LIMITS            |-> limit.IP_RATE_LIMITS,
                   QUICK_CLAUSE_HISTORY      |-> Put(QUICK_CLAUSE_HISTORY, user_id, kept)]

quick_analyze_clause(req) ==
    IF req.clause_text = "not_json"
    THEN quick_unchanged(Response(500, "error"))
    ELSE IF req.clause_text = "blank"
    THEN quick_unchanged(Response(400, "paste_one_clause"))
    ELSE IF req.clause_text = "long"
    THEN quick_unchanged(Response(400, "clause_too_long"))
    ELSE LET user_id == get_user_identifier(req.x_user_id, req.host)
             limit   == check_rate_limit(user_id, req.host)
             result  == [created_at |-> isoformat(now)]
             history == <<result>> \o Get(QUICK_CLAUSE_HISTORY, user_id, <<>>)
             kept    == SubSeq(history, 1,
                               IF Len(history) < QUICK_CLAUSE_HISTORY_LIMIT
                               THEN Len(history) ELSE QUICK_CLAUSE_HISTORY_LIMIT)
         IN  IF ~limit.allowed
             THEN [response                  |->
                       Response(429, [error   |-> "limit_reached",
                                      message |-> "used_3_free_previews"]),
                   QUICK_ANALYZE_RATE_LIMITS |-> limit.QUICK_ANALYZE_RATE_LIMITS,
                   IP_RATE_LIMITS            |-> limit.IP_RATE_LIMITS,
                   QUICK_CLAUSE_HISTORY      |-> QUICK_CLAUSE_HISTORY]
             ELSE [response                  |-> Response(200, "quick_result"),
                   remaining_quota_today     |-> limit.remaining,
                   QUICK_ANALYZE_RATE_LIMITS |-> limit.QUICK_ANALYZE_RATE_LIMITS,
                   IP_RATE_LIMITS            |-> limit.IP_RATE_LIMITS,
                   QUICK_CLAUSE_HISTORY      |-> Put(QUICK_CLAUSE_HISTORY, user_id, kept)]

QuickAnalyze(req) ==
    LET r == quick_analyze_clause(req) IN
    /\ \A host \in DOMAIN r.IP_RATE_LIMITS : Len(r.IP_RATE_LIMITS[host]) <= MaxQuick
    /\ QUICK_ANALYZE_RATE_LIMITS' = r.QUICK_ANALYZE_RATE_LIMITS
    /\ IP_RATE_LIMITS' = r.IP_RATE_LIMITS
    /\ QUICK_CLAUSE_HISTORY' = r.QUICK_CLAUSE_HISTORY
    /\ UNCHANGED <<clock, config, call, in_flight,
                   ANALYSIS_STORE, USER_ACCESS_STORE, TRANSACTIONS_STORE>>

(* The limiter under load.  One host is shared by `alice` and by a crowd  *)
(* of other identifiers, enough of them to fill the host's cap; a second  *)
(* host serves alice alone.  The crowd's members are interchangeable, so  *)
(* they send in a fixed order, each its full allowance, and all at one    *)
(* instant.                                                               *)
Crowd == <<"c1", "c2", "c3", "c4", "c5", "c6", "c7">>

QuickUsers == {"alice"} \cup {Crowd[i] : i \in DOMAIN Crowd}

QuickHosts == {"10.0.0.1", "10.0.0.2"}

(* The instants at which the clock is read: the first request's, and the  *)
(* ones just inside, at the end of, and just past its window.             *)
QuickTimes ==
    {0, QUICK_ANALYZE_WINDOW - 1, QUICK_ANALYZE_WINDOW, QUICK_ANALYZE_WINDOW + 1}

CrowdTurn(i) ==
    /\ \A j \in DOMAIN Crowd :
           LET sent == Get(QUICK_ANALYZE_RATE_LIMITS, Crowd[j], <<>>)
           IN  \A k \in DOMAIN sent : sent[k] = now
    /\ Len(Get(QUICK_ANALYZE_RATE_LIMITS, Crowd[i], <<>>)) < QUICK_ANALYZE_USER_LIMIT
    /\ \A j \in 1..(i - 1) :
           Len(Get(QUICK_ANALYZE_RATE_LIMITS, Crowd[j], <<>>)) = QUICK_ANALYZE_USER_LIMIT

BurstRequests ==
    [clause_text : QuickClauses, x_user_id : {"alice"}, host : QuickHosts]
    \cup
    {[clause_text |-> "short", x_user_id |-> Crowd[i], host |-> "10.0.0.1"] :
        i \in {k \in DOMAIN Crowd : CrowdTurn(k)}}

(* The same handler, bounded by the limiter's own caps. *)
QuickAnalyzeBurst(req) ==
    LET r == quick_analyze_clause(req) IN
    /\ QUICK_ANALYZE_RATE_LIMITS' = r.QUICK_ANALYZE_RATE_LIMITS
    /\ IP_RATE_LIMITS' = r.IP_RATE_LIMITS
    /\ QUICK_CLAUSE_HISTORY' = r.QUICK_CLAUSE_HISTORY
    /\ UNCHANGED <<clock, config, call, in_flight,
                   ANALYSIS_STORE, USER_ACCESS_STORE, TRANSACTIONS_STORE>>

----------------------------------------------------------------------------
(* The environment settings of config.py: bypass off; bypass on with the *)
(* default empty id list; bypass on with a configured, padded id list.   *)
BypassSettings ==
    {<<FALSE, <<"">>>>, <<TRUE, <<"">>>>, <<TRUE, <<" alice ", " ">>>>}

Init ==
    /\ clock = 0
    /\ tz \in {-8, 0, 8}
    /\ \E setting \in BypassSettings :
        /\ TEST_USER_BYPASS = setting[1]
        /\ TEST_USER_IDS = setting[2]
    /\ PADDLE_API_KEY \in {"", "sk"}
    /\ ANALYSIS_STORE = EmptyDict
    /\ USER_ACCESS_STORE = EmptyDict
    /\ TRANSACTIONS_STORE = EmptyDict
    /\ QUICK_ANALYZE_RATE_LIMITS = EmptyDict
    /\ IP_RATE_LIMITS = EmptyDict
    /\ QUICK_CLAUSE_HISTORY = EmptyDict
    /\ in_flight = [c \in Coroutines |-> Idle]
    /\ call = NoCall


(* Time passes between requests, one pass period at a time. *)
Tick ==
    /\ clock + Hours(ACCESS_DAYS) <= MaxPeriods * Hours(ACCESS_DAYS)
    /\ clock' = clock + Hours(ACCESS_DAYS)
    /\ UNCHANGED <<config, call, in_flight, quick,
                   ANALYSIS_STORE, USER_ACCESS_STORE, TRANSACTIONS_STORE>>

(* The read-only endpoints.  Ids asked for: any id an analysis can have. *)
AnalysisIds == {<<u, k>> : u \in Users, k \in 1..MaxAnalyses}

(* routes/lease_routes.py: GET /full-report.  check_user_access is called *)
(* for a requester who is not the owner and again for has_full_access; a  *)
(* KeyError inside it is caught by `except Exception` (HTTP 500).         *)
get_full_report(analysis_id, user_id) ==
    IF analysis_id \notin DOMAIN ANALYSIS_STORE
    THEN unchanged_by(Response(404, "analysis_not_found"))
    ELSE LET analysis    == ANALYSIS_STORE[analysis_id]
             access_info == check_user_access(user_id)
         IN
         IF access_info.kind = "KeyError"
         THEN unchanged_by(Response(500, "failed_to_retrieve"))
         ELSE IF analysis["user_id"] # user_id /\ ~access_info.has_access
         THEN unchanged_by(Response(403, "access_denied"))
         ELSE unchanged_by(Response(200, [analysis_id     |-> analysis_id,
                                          user_id         |-> user_id,
                                          has_full_access |-> access_info.has_access]))

GetFullReport(analysis_id, user_id) ==
    LET r == get_full_report(analysis_id, user_id) IN
    /\ ANALYSIS_STORE' = r.ANALYSIS_STORE
    /\ USER_ACCESS_STORE' = r.USER_ACCESS_STORE
    /\ UNCHANGED <<clock, config, call, in_flight, quick, TRANSACTIONS_STORE>>

(* routes/billing_routes.py: GET /check-access (the handler is named *)
(* check_user_access there).                                         *)
billing_check_user_access(user_id) ==
    IF user_id \notin DOMAIN USER_ACCESS_STORE
    THEN unchanged_by(Response(200, [has_access |-> FALSE, analyses_count |-> 0]))
    ELSE LET access == USER_ACCESS_STORE[user_id]
             analyses_count == Len(analysis_ids_of(USER_ACCESS_STORE, user_id))
         IN
         IF "expires_at" \notin DOMAIN access
         THEN unchanged_by(Response(200, [has_access |-> FALSE,
                                          analyses_count |-> analyses_count]))
         ELSE unchanged_by(Response(200,
                  [has_access     |-> now < fromisoformat(access["expires_at"]),
                   analyses_count |-> analyses_count]))

CheckAccess(user_id) ==
    LET r == billing_check_user_access(user_id) IN
    /\ ANALYSIS_STORE' = r.ANALYSIS_STORE
    /\ USER_ACCESS_STORE' = r.USER_ACCESS_STORE
    /\ UNCHANGED <<clock, config, call, in_flight, quick, TRANSACTIONS_STORE>>

(* routes/billing_routes.py: GET /check-payment-status/{analysis_id}. *)
check_payment_status(analysis_id) ==
    IF analysis_id \notin DOMAIN ANALYSIS_STORE
    THEN unchanged_by(Response(404, "analysis_not_found"))
    ELSE LET user_id == ANALYSIS_STORE[analysis_id]["user_id"] IN
         IF user_id \notin DOMAIN USER_ACCESS_STORE
         THEN unchanged_by(Response(200, [analysis_id |-> analysis_id, paid |-> FALSE]))
         ELSE LET access == USER_ACCESS_STORE[user_id] IN
              unchanged_by(Response(200,
                  [analysis_id |-> analysis_id,
                   paid |-> IF "expires_at" \in DOMAIN access
                            THEN now < fromisoformat(access["expires_at"])
                            ELSE FALSE]))

CheckPaymentStatus(analysis_id) ==
    LET r == check_payment_status(analysis_id) IN
    /\ ANALYSIS_STORE' = r.ANALYSIS_STORE
    /\ USER_ACCESS_STORE' = r.USER_ACCESS_STORE
    /\ UNCHANGED <<clock, config, call, in_flight, quick, TRANSACTIONS_STORE>>

(* The entitlement machine: analyses, webhooks and the passing of time. *)
NextAccess ==
    \/ Tick
    \/ \E u \in Users, req \in AnalyzeRequests : Analyze(u, req)
    \/ \E req \in WebhookRequests : PaddleWebhook(req)
    \/ \E req \in WebhookRequests : HandleWebhook(req)
    \/ \E id \in AnalysisIds, u \in Users : GetFullReport(id, u)
    \/ \E u \in Users : CheckAccess(u)
    \/ \E id \in AnalysisIds : CheckPaymentStatus(id)

Spec == Init /\ [][NextAccess]_vars

(* The whole service on one deployment: a host 8 hours ahead of UTC, no   *)
(* test bypass, the provider key configured.                              *)
InitService ==
    /\ Init
    /\ tz = 8
    /\ ~TEST_USER_BYPASS
    /\ TEST_USER_IDS = <<"">>
    /\ PADDLE_API_KEY = "sk"

Next ==
    \/ NextAccess
    \/ \E u \in Users, provider \in CheckoutProviders : CreateCheckout(u, provider)
    \/ \E u \in Users, provider \in CheckoutProviders : CreateCheckoutSession(u, provider)
    \/ \E req \in QuickRequests : QuickAnalyze(req)

SpecService == InitService /\ [][Next]_vars

(* The quick-analyze endpoint alone, with the clock moving to any later   *)
(* of the sampled instants between requests.                              *)
TickQuick ==
    /\ \E t \in QuickTimes : t > clock /\ clock' = t
    /\ UNCHANGED <<config, call, in_flight, quick,
                   ANALYSIS_STORE, USER_ACCESS_STORE, TRANSACTIONS_STORE>>

NextQuick ==
    \/ TickQuick
    \/ \E req \in BurstRequests : QuickAnalyzeBurst(req)

SpecQuick == InitService /\ [][NextQuick]_vars

(* /analyze requests running concurrently on the event loop, with the     *)
(* webhooks that grant passes, under each bypass setting.                 *)
InitRace ==
    /\ Init
    /\ tz = 8
    /\ PADDLE_API_KEY = "sk"

NextRace ==
    \/ \E req \in WebhookRequests : HandleWebhook(req)
    \/ \E u \in Users : AnalyzeBegin(u)
    \/ \E c \in Coroutines : AnalyzeSummarized(c)
    \/ \E c \in Coroutines, ai \in AnalyzeAi : AnalyzeResume(c, ai)

SpecRace == InitRace /\ [][NextRace]_vars

----------------------------------------------------------------------------
(* Vocabulary of the properties *)

Paid(user_id) ==
    /\ user_id \in DOMAIN USER_ACCESS_STORE
    /\ "expires_at" \in DOMAIN USER_ACCESS_STORE[user_id]

ExpiresAt(user_id) == fromisoformat(USER_ACCESS_STORE[user_id]["expires_at"])

Consumed(user_id) == analysis_ids_of(USER_ACCESS_STORE, user_id)

Unexpired(user_id) == Paid(user_id) /\ now < ExpiresAt(user_id)

Expired(user_id) == Paid(user_id) /\ now >= ExpiresAt(user_id)

OwnedAnalyses(user_id) ==
    {id \in DOMAIN ANALYSIS_STORE : ANALYSIS_STORE[id]["user_id"] = user_id}

(* A request that passes validation, OCR and the LLM stage. *)
ReachesGate(req) ==
    /\ req.file \in {"pdf", "image"}
    /\ req.pages >= 1 /\ req.pages <= MAX_PAGES
    /\ req.ocr = "text"
    /\ req.ai = "ok"

LimitReached == [kind |-> "ok", has_access |-> FALSE, reason |-> "lease_limit_reached"]

----------------------------------------------------------------------------
(* C1: for a non-bypassed user with an unexpired record holding exactly 5   *)
(* consumed analysis ids, check_user_access reports has_access = false     *)
(* with reason "lease_limit_reached", and a further /analyze request that  *)
(* reaches the gate is answered 403; no request of that user adds an entry *)
(* to ANALYSIS_STORE or changes the consumed-id list.                       *)
C1_QuotaBoundary ==
    \A u \in Users :
        (/\ ~should_bypass_test_user(u)
         /\ Unexpired(u)
         /\ Len(Consumed(u)) = FULL_ANALYSIS_LEASE_LIMIT)
        => /\ check_user_access(u) = LimitReached
           /\ \A req \in AnalyzeRequests :
                LET r == analyze_lease(u, req) IN
                /\ ReachesGate(req) => r.response.status = 403
                /\ r.ANALYSIS_STORE = ANALYSIS_STORE
                /\ analysis_ids_of(r.USER_ACCESS_STORE, u) = Consumed(u)

(* Five analyses of one non-bypassed user are stored and consumed, and the *)
(* pass is still running.                                                   *)
C1_Witness ==
    \E u \in Users :
        /\ ~should_bypass_test_user(u)
        /\ Unexpired(u)
        /\ Len(Consumed(u)) = FULL_ANALYSIS_LEASE_LIMIT
        /\ Cardinality(OwnedAnalyses(u)) = FULL_ANALYSIS_LEASE_LIMIT

(* C2 as stated: check_user_access always returns, and has_access is true  *)
(* exactly when a record exists, now < expires_at and fewer than 5 ids are *)
(* consumed.                                                                *)
C2_CheckIffValid ==
    \A u \in Users :
        LET r == check_user_access(u) IN
        /\ r.kind = "ok"
        /\ r.has_access <=>
              (/\ u \in DOMAIN USER_ACCESS_STORE
               /\ now < ExpiresAt(u)
               /\ Len(Consumed(u)) < FULL_ANALYSIS_LEASE_LIMIT)

(* C4: an /analyze request that does not end in the success response       *)
(* leaves ANALYSIS_STORE and USER_ACCESS_STORE as they were; the failure is *)
(* 400 for a rejected file, no pages or too many pages, success:false for  *)
(* failed OCR or an adapter exception, and 403 for a non-bypassed user     *)
(* without access.                                                          *)
C4_FailureLeavesStores ==
    \A u \in Users, req \in AnalyzeRequests :
        LET r == analyze_lease(u, req) IN
        /\ r.response.body # "full_analysis"
             => /\ r.ANALYSIS_STORE = ANALYSIS_STORE
                /\ r.USER_ACCESS_STORE = USER_ACCESS_STORE
        /\ (req.file \in {"invalid", "unsupported"} \/ req.pages = 0 \/ req.pages > MAX_PAGES)
             => r.response.status = 400
        /\ (req.ocr # "text" \/ req.ai = "raise")
             => r.response.body = "success_false"
        /\ (/\ ReachesGate(req)
            /\ ~should_bypass_test_user(u)
            /\ (u \notin DOMAIN USER_ACCESS_STORE \/ Expired(u)
                \/ (Unexpired(u) /\ Len(Consumed(u)) >= FULL_ANALYSIS_LEASE_LIMIT)))
             => r.response.status = 403

(* Analyses are stored, one user's pass has run out with ids consumed, and *)
(* the other user has no record: requests of both are denied.               *)
C4_Witness ==
    /\ ANALYSIS_STORE # EmptyDict
    /\ \E u \in Users :
        /\ ~should_bypass_test_user(u)
        /\ Expired(u)
        /\ Len(Consumed(u)) > 0
        /\ analyze_lease(u, GoodRequest).response.status = 403
    /\ \E v \in Users :
        /\ ~should_bypass_test_user(v)
        /\ v \notin DOMAIN USER_ACCESS_STORE
        /\ analyze_lease(v, GoodRequest).response.status = 403

(* C5: check_user_access gives the reason "lease_limit_reached" exactly for *)
(* an unexpired record holding at least 5 ids; /analyze answers that case  *)
(* with the quota-used message and every other denial with the pay/login   *)
(* message.                                                                 *)
C5_LimitReasonOnlyWhenExhausted ==
    \A u \in Users :
        LET exhausted == Unexpired(u) /\ Len(Consumed(u)) >= FULL_ANALYSIS_LEASE_LIMIT IN
        /\ (check_user_access(u).reason = "lease_limit_reached") <=> exhausted
        /\ ~should_bypass_test_user(u) =>
             \A req \in {q \in AnalyzeRequests : ReachesGate(q)} :
                LET r == analyze_lease(u, req) IN
                /\ (r.response.body = "quota_used_message") <=> exhausted
                /\ (r.response.status = 403 /\ ~exhausted)
                     => r.response.body = "pay_login_message"

(* One user's record holds 5 ids and has expired; the /analyze denial is   *)
(* the pay/login one.                                                       *)
C5_Witness ==
    \E u \in Users :
        /\ ~should_bypass_test_user(u)
        /\ Expired(u)
        /\ Len(Consumed(u)) = FULL_ANALYSIS_LEASE_LIMIT
        /\ analyze_lease(u, GoodRequest).response.body = "pay_login_message"

----------------------------------------------------------------------------
(* Steps *)

IsPrefix(s, t) == Len(s) <= Len(t) /\ SubSeq(t, 1, Len(s)) = s

NoDuplicates(seq) == \A i, j \in DOMAIN seq : seq[i] = seq[j] => i = j

(* The step writes the payment fields of the user's record. *)
GrantStep(user_id) ==
    /\ user_id \in DOMAIN USER_ACCESS_STORE'
    /\ "paid_at" \in DOMAIN USER_ACCESS_STORE'[user_id]
    /\ \/ ~Paid(user_id)
       \/ USER_ACCESS_STORE'[user_id]["paid_at"] # USER_ACCESS_STORE[user_id]["paid_at"]
       \/ USER_ACCESS_STORE'[user_id]["expires_at"] # USER_ACCESS_STORE[user_id]["expires_at"]

(* The step completes a pending purchase of the user: the transaction goes *)
(* from pending to completed and the payment fields are stamped with the   *)
(* current time.                                                            *)
PurchaseCompletes(user_id) ==
    /\ \E t \in DOMAIN TRANSACTIONS_STORE :
        /\ TRANSACTIONS_STORE[t]["user_id"] = user_id
        /\ TRANSACTIONS_STORE[t]["status"] = "pending"
        /\ TRANSACTIONS_STORE'[t]["status"] = "completed"
    /\ user_id \in DOMAIN USER_ACCESS_STORE'
    /\ "paid_at" \in DOMAIN USER_ACCESS_STORE'[user_id]
    /\ USER_ACCESS_STORE'[user_id]["paid_at"] = isoformat(utcnow)

(* C3 as stated: a user whose 5 analyses are consumed regains access by    *)
(* buying another pass: when a checkout of that user is completed by a     *)
(* success webhook, check_user_access reports has_access = true.           *)
C3_ExhaustedRegainsAccess ==
    [][\A u \in Users :
         (/\ Paid(u)
          /\ Len(Consumed(u)) >= FULL_ANALYSIS_LEASE_LIMIT
          /\ PurchaseCompletes(u))
         => check_user_access(u)'.has_access]_vars

(* C6: a step that grants access to a user stamps paid_at with the current *)
(* time (UTC in grant_access, local in paddle_webhook) and expires_at 30   *)
(* days after it, keeps that user's consumed ids, and leaves the records   *)
(* of other users, ANALYSIS_STORE and the rate-limit counters as they were. *)
C6_GrantFrame ==
    [][\A u \in Users :
         GrantStep(u) =>
            /\ \E t \in {utcnow, now} :
                /\ USER_ACCESS_STORE'[u]["paid_at"] = isoformat(t)
                /\ USER_ACCESS_STORE'[u]["expires_at"] = isoformat(t + Hours(ACCESS_DAYS))
            /\ analysis_ids_of(USER_ACCESS_STORE', u) = Consumed(u)
            /\ \A v \in Users \ {u} :
                /\ v \in DOMAIN USER_ACCESS_STORE' <=> v \in DOMAIN USER_ACCESS_STORE
                /\ v \in DOMAIN USER_ACCESS_STORE => USER_ACCESS_STORE'[v] = USER_ACCESS_STORE[v]
            /\ ANALYSIS_STORE' = ANALYSIS_STORE
            /\ QUICK_ANALYZE_RATE_LIMITS' = QUICK_ANALYZE_RATE_LIMITS
            /\ IP_RATE_LIMITS' = IP_RATE_LIMITS]_vars

(* The analysis was created at least a day before the record's paid_at. *)
ConsumedBeforeGrant(user_id, analysis_id) ==
    /\ Paid(user_id)
    /\ analysis_id \in DOMAIN ANALYSIS_STORE
    /\ fromisoformat(USER_ACCESS_STORE[user_id]["paid_at"])
         >= fromisoformat(ANALYSIS_STORE[analysis_id]["created_at"]) + Hours(1)

(* A renewed pass: the record still holds two ids consumed before it was   *)
(* stamped, next to another user's record that has an id consumed, with a  *)
(* quick-analyze request counted by the rate limiter.                      *)
C6_Witness ==
    /\ \E u \in Users, v \in Users :
        /\ u # v
        /\ ~should_bypass_test_user(u)
        /\ Len(Consumed(u)) >= 2
        /\ \A i \in DOMAIN Consumed(u) : ConsumedBeforeGrant(u, Consumed(u)[i])
        /\ Paid(v)
        /\ Len(Consumed(v)) >= 1
    /\ \E host \in DOMAIN IP_RATE_LIMITS : Len(IP_RATE_LIMITS[host]) > 0
    /\ \E id \in DOMAIN QUICK_ANALYZE_RATE_LIMITS : Len(QUICK_ANALYZE_RATE_LIMITS[id]) > 0

(* C7: over /analyze, both webhooks and the clock, each user's consumed-id *)
(* list only grows by appending and never holds an id twice.                *)
C7_IdsAppendOnly ==
    [][\A u \in Users :
         LET after == analysis_ids_of(USER_ACCESS_STORE', u) IN
         /\ IsPrefix(Consumed(u), after)
         /\ NoDuplicates(after)]_vars

(* A record that was granted again after an analysis was consumed, and    *)
(* has had further ids appended since.                                     *)
C7_Witness ==
    \E u \in Users :
        /\ ~should_bypass_test_user(u)
        /\ Len(Consumed(u)) >= 3
        /\ ConsumedBeforeGrant(u, Consumed(u)[1])
        /\ ~ConsumedBeforeGrant(u, Consumed(u)[Len(Consumed(u))])

(* C8 as stated: every USER_ACCESS_STORE entry carries paid_at and         *)
(* expires_at, 30 days apart.                                               *)
C8_EntryHasPaymentFields ==
    \A u \in DOMAIN USER_ACCESS_STORE :
        /\ "paid_at" \in DOMAIN USER_ACCESS_STORE[u]
        /\ "expires_at" \in DOMAIN USER_ACCESS_STORE[u]
        /\ fromisoformat(USER_ACCESS_STORE[u]["expires_at"])
             = fromisoformat(USER_ACCESS_STORE[u]["paid_at"]) + Hours(ACCESS_DAYS)

(* C9 as stated: for a bypassed user /analyze succeeds in any entitlement  *)
(* state and leaves USER_ACCESS_STORE as it was.                            *)
C9_BypassLeavesAccessStore ==
    \A u \in Users, req \in AnalyzeRequests :
        (should_bypass_test_user(u) /\ ReachesGate(req))
        => LET r == analyze_lease(u, req) IN
           /\ r.response.body = "full_analysis"
           /\ r.USER_ACCESS_STORE = USER_ACCESS_STORE

----------------------------------------------------------------------------
(* Webhook authentication.                                                 *)

Unsigned(req) == req.signature = <<>>

Mismatched(req) ==
    /\ PADDLE_API_KEY # ""
    /\ req.signature # <<>>
    /\ req.signature # HMAC(PADDLE_API_KEY, req.body)

Rejected401(r) ==
    /\ r.response.status = 401
    /\ r.USER_ACCESS_STORE = USER_ACCESS_STORE
    /\ r.TRANSACTIONS_STORE = TRANSACTIONS_STORE

(* C11: a webhook request without a signature, or with a signature that  *)
(* is not the HMAC of the raw body under the configured key, is answered *)
(* 401 by the webhook handler and changes neither USER_ACCESS_STORE nor  *)
(* TRANSACTIONS_STORE.                                                    *)
C11_BadSignatureRejected ==
    \A req \in WebhookRequests :
        (Unsigned(req) \/ Mismatched(req)) =>
            /\ Rejected401(paddle_webhook(req))
            /\ Rejected401(handle_webhook(req))

(* The event of a request is processed: the handler answers 200 and, for  *)
(* a payment-success event naming a user, that user's pass runs from now   *)
(* (the local or the UTC reading, as the handler takes it).               *)
Processed(r, req) ==
    /\ r.response.status = 200
    /\ (req.body.event_type \in PAYMENT_SUCCESS_EVENTS
            /\ req.body.user_id # None /\ req.body.transaction_id # None)
       => /\ req.body.user_id \in DOMAIN r.USER_ACCESS_STORE
          /\ "expires_at" \in DOMAIN r.USER_ACCESS_STORE[req.body.user_id]
          /\ fromisoformat(r.USER_ACCESS_STORE[req.body.user_id]["expires_at"])
                 \in {now + Hours(ACCESS_DAYS), utcnow + Hours(ACCESS_DAYS)}

(* C12: with no provider API key configured the webhook handler fails     *)
(* open: a signed webhook passes verification and its event is processed, *)
(* it is neither rejected nor failed.                                     *)
C12_FailsOpenWithoutKey ==
    PADDLE_API_KEY = "" =>
        \A req \in WebhookRequests :
            (~Unsigned(req) /\ req.body.json) =>
                /\ Processed(paddle_webhook(req), req)
                /\ Processed(handle_webhook(req), req)

----------------------------------------------------------------------------
(* Transactions.                                                           *)

StatusOf(store, transaction_id) == store[transaction_id]["status"]

(* C13: transaction status transitions are one-way: a transaction leaves  *)
(* pending only to completed or failed, and once completed or failed no   *)
(* later webhook moves it to the other of the two or back to pending.     *)
C13_StatusOneWay ==
    [][\A t \in DOMAIN TRANSACTIONS_STORE :
           /\ t \in DOMAIN TRANSACTIONS_STORE'
           /\ StatusOf(TRANSACTIONS_STORE, t) = "pending"
                  => StatusOf(TRANSACTIONS_STORE', t) \in {"pending", "completed", "failed"}
           /\ StatusOf(TRANSACTIONS_STORE, t) \in {"completed", "failed"}
                  => StatusOf(TRANSACTIONS_STORE', t) = StatusOf(TRANSACTIONS_STORE, t)]_vars

Stored(transaction_id) ==
    \/ transaction_id[1] = "txn" /\ transaction_id[2] \in DOMAIN TRANSACTIONS_STORE
    \/ \E k \in DOMAIN TRANSACTIONS_STORE : TRANSACTIONS_STORE[k]["id"] = transaction_id

(* C14: querying the transaction endpoint with an id that matches no      *)
(* stored transaction, by provider id or by internal id, is answered with *)
(* HTTP 404, success=false and an error message.                          *)
C14_UnknownTransaction404 ==
    \A transaction_id \in TransactionQueries :
        ~Stored(transaction_id) =>
            LET response == get_transaction_status(transaction_id)
            IN  /\ response.status = 404
                /\ response.body.success = FALSE
                /\ response.body.error # None

----------------------------------------------------------------------------
(* Checkout creation.  The handlers read the provider's answer only when  *)
(* they call it: a response that does not depend on that answer shows no  *)
(* call was made.                                                         *)

(* Unexpired, and expired, by the UTC and by the local reading alike. *)
HasUnexpiredRecord(user_id) ==
    Paid(user_id) /\ utcnow < ExpiresAt(user_id) /\ now < ExpiresAt(user_id)

HasNoAccess(user_id) ==
    \/ user_id \notin DOMAIN USER_ACCESS_STORE
    \/ Paid(user_id) /\ utcnow >= ExpiresAt(user_id) /\ now >= ExpiresAt(user_id)

NoCheckoutNeeded(r) ==
    /\ r.response.status = 200
    /\ r.response.body = CheckoutResponse(TRUE, None, None, None)
    /\ r.TRANSACTIONS_STORE = TRANSACTIONS_STORE

CheckoutCreated(r) ==
    /\ r.response.status = 200
    /\ r.response.body.success
    /\ r.response.body.checkout_url # None

OnePendingAdded(r, user_id) ==
    \E t \in DOMAIN r.TRANSACTIONS_STORE \ DOMAIN TRANSACTIONS_STORE :
        /\ DOMAIN r.TRANSACTIONS_STORE = DOMAIN TRANSACTIONS_STORE \cup {t}
        /\ \A k \in DOMAIN TRANSACTIONS_STORE : r.TRANSACTIONS_STORE[k] = TRANSACTIONS_STORE[k]
        /\ r.TRANSACTIONS_STORE[t]["status"] = "pending"
        /\ r.TRANSACTIONS_STORE[t]["user_id"] = user_id
        /\ r.response.body.transaction_id = t

(* C15: checkout creation for a user with an unexpired entitlement record *)
(* returns success=true without checkout_url and transaction_id, calls no *)
(* provider and creates no transaction; for a user without access a       *)
(* successful creation adds exactly one transaction, in status pending.   *)
C15_CheckoutCreation ==
    PADDLE_API_KEY # "" =>
        \A user_id \in Users, provider \in CheckoutProviders :
            /\ HasUnexpiredRecord(user_id) =>
                   /\ NoCheckoutNeeded(create_checkout(user_id, provider))
                   /\ NoCheckoutNeeded(create_checkout_session(user_id, provider))
            /\ HasNoAccess(user_id) =>
                   /\ CheckoutCreated(create_checkout(user_id, provider))
                          => OnePendingAdded(create_checkout(user_id, provider), user_id)
                   /\ CheckoutCreated(create_checkout_session(user_id, provider))
                          => OnePendingAdded(create_checkout_session(user_id, provider),
                                             user_id)

----------------------------------------------------------------------------
(* The quick-analyze rate limiter.                                         *)

ValidQuickRequest(user_id, host) ==
    [clause_text |-> "short", x_user_id |-> user_id, host |-> host]

Recorded(user_id) == Get(QUICK_ANALYZE_RATE_LIMITS, user_id, <<>>)

RecordedIp(host) == Get(IP_RATE_LIMITS, host, <<>>)

IpBelowCap(host) == Len(RecordedIp(host)) < QUICK_ANALYZE_IP_LIMIT

(* C16: for one identifier whose IP is below its cap, a valid request is  *)
(* allowed while fewer than three are on record, the fourth request       *)
(* within 24 hours of the first is denied, and a request more than 24     *)
(* hours after the first is allowed again.                                *)
C16_ThreePerWindow ==
    \A user_id \in QuickUsers, host \in QuickHosts :
        LET r == quick_analyze_clause(ValidQuickRequest(user_id, host))
            recorded == Recorded(user_id)
        IN  IpBelowCap(host) =>
               /\ Len(recorded) < QUICK_ANALYZE_USER_LIMIT => r.response.status = 200
               /\ (Len(recorded) = QUICK_ANALYZE_USER_LIMIT
                      /\ now - recorded[1] < QUICK_ANALYZE_WINDOW)
                  => r.response.status = 429
               /\ (Len(recorded) = QUICK_ANALYZE_USER_LIMIT
                      /\ now - recorded[1] > QUICK_ANALYZE_WINDOW)
                  => r.response.status = 200

(* Three requests spread over a window, the first of them just out of it: *)
(* the next request is allowed and takes the last of the quota.           *)
C16_Witness ==
    LET recorded == Recorded("alice")
        r == quick_analyze_clause(ValidQuickRequest("alice", "10.0.0.1"))
    IN  /\ Len(recorded) = QUICK_ANALYZE_USER_LIMIT
        /\ recorded[1] < recorded[3]
        /\ now - recorded[1] > QUICK_ANALYZE_WINDOW
        /\ now - recorded[3] < QUICK_ANALYZE_WINDOW
        /\ IpBelowCap("10.0.0.1")
        /\ r.response.status = 200
        /\ Len(r.QUICK_ANALYZE_RATE_LIMITS["alice"]) = QUICK_ANALYZE_USER_LIMIT

IsSuffix(s, t) == \E k \in 0..Len(t) : s = SubSeq(t, k + 1, Len(t))

Front(seq) == SubSeq(seq, 1, Len(seq) - 1)

(* The list is what was on record, less pruned entries, plus `ts`. *)
AppendedTo(list, recorded, ts) ==
    /\ Len(list) >= 1
    /\ list[Len(list)] = ts
    /\ IsSuffix(Front(list), recorded)

OthersUntouched(after, before, key) ==
    /\ DOMAIN after \subseteq DOMAIN before \cup {key}
    /\ \A k \in DOMAIN before \ {key} : k \in DOMAIN after /\ after[k] = before[k]

(* C17: a check_rate_limit call that denies appends no timestamp to       *)
(* either counter; a call that allows appends the same `now` to the       *)
(* caller's user counter and IP counter; the counters of every other      *)
(* identifier and IP are untouched.                                       *)
C17_LimiterFrame ==
    \A user_id \in QuickUsers, host \in QuickHosts :
        LET r == check_rate_limit(user_id, host) IN
        /\ ~r.allowed =>
               /\ IsSuffix(Get(r.QUICK_ANALYZE_RATE_LIMITS, user_id, <<>>), Recorded(user_id))
               /\ IsSuffix(Get(r.IP_RATE_LIMITS, host, <<>>), RecordedIp(host))
        /\ r.allowed =>
               /\ AppendedTo(Get(r.QUICK_ANALYZE_RATE_LIMITS, user_id, <<>>),
                             Recorded(user_id), now)
               /\ AppendedTo(Get(r.IP_RATE_LIMITS, host, <<>>), RecordedIp(host), now)
        /\ OthersUntouched(r.QUICK_ANALYZE_RATE_LIMITS, QUICK_ANALYZE_RATE_LIMITS, user_id)
        /\ OthersUntouched(r.IP_RATE_LIMITS, IP_RATE_LIMITS, host)

(* Both hosts and several identifiers hold timestamps; alice is denied on *)
(* one host, by the host's cap alone, and allowed on the other.           *)
C17_Witness ==
    /\ Len(RecordedIp("10.0.0.1")) = QUICK_ANALYZE_IP_LIMIT
    /\ Len(RecordedIp("10.0.0.2")) >= 1
    /\ Len(Recorded("alice")) < QUICK_ANALYZE_USER_LIMIT
    /\ ~check_rate_limit("alice", "10.0.0.1").allowed
    /\ check_rate_limit("alice", "10.0.0.2").allowed
    /\ \E user_id \in QuickUsers \ {"alice"} : ~check_rate_limit(user_id, "10.0.0.2").allowed

(* The timestamps of a list that lie in the window ending now. *)
InWindowCount(list) ==
    Cardinality({i \in DOMAIN list : now - list[i] < QUICK_ANALYZE_WINDOW})

(* C18: the remaining count check_rate_limit returns is, on allow, 3      *)
(* minus the user's count after recording the request and never negative; *)
(* on a denial by the user cap, 0; on a denial by the IP cap alone, 3     *)
(* minus the user's current in-window count.                              *)
C18_Remaining ==
    \A user_id \in QuickUsers, host \in QuickHosts :
        LET r == check_rate_limit(user_id, host)
            user_count == InWindowCount(Recorded(user_id))
        IN  /\ r.allowed =>
                /\ r.remaining =
                       QUICK_ANALYZE_USER_LIMIT - Len(r.QUICK_ANALYZE_RATE_LIMITS[user_id])
                /\ r.remaining = QUICK_ANALYZE_USER_LIMIT - (user_count + 1)
                /\ r.remaining >= 0
            /\ (~r.allowed /\ user_count >= QUICK_ANALYZE_USER_LIMIT) => r.remaining = 0
            /\ (~r.allowed /\ user_count < QUICK_ANALYZE_USER_LIMIT) =>
                /\ InWindowCount(RecordedIp(host)) >= QUICK_ANALYZE_IP_LIMIT
                /\ r.remaining = QUICK_ANALYZE_USER_LIMIT - user_count

(* The three outcomes side by side: alice, with one request of hers out   *)
(* of the window and one in it, is denied by the full host with 2 left    *)
(* and allowed on the other host with 1 left, while a crowd member is     *)
(* denied by its own cap with 0 left.                                     *)
C18_Witness ==
    /\ Len(Recorded("alice")) = 2
    /\ InWindowCount(Recorded("alice")) = 1
    /\ ~check_rate_limit("alice", "10.0.0.1").allowed
    /\ check_rate_limit("alice", "10.0.0.1").remaining = 2
    /\ check_rate_limit("alice", "10.0.0.2").allowed
    /\ check_rate_limit("alice", "10.0.0.2").remaining = 1
    /\ ~check_rate_limit(Crowd[1], "10.0.0.1").allowed
    /\ check_rate_limit(Crowd[1], "10.0.0.1").remaining = 0

(* C19: a quick-analyze request denied by the limiter is answered 429     *)
(* with a body that carries the remaining quota the limiter computed      *)
(* together with a machine-readable code.                                 *)
C19_DenialCarriesRemaining ==
    \A user_id \in QuickUsers, host \in QuickHosts :
        LET r     == quick_analyze_clause(ValidQuickRequest(user_id, host))
            limit == check_rate_limit(user_id, host)
        IN  ~limit.allowed =>
                /\ r.response.status = 429
                /\ r.response.body.error = "limit_reached"
                /\ "remaining" \in DOMAIN r.response.body
                /\ r.response.body["remaining"] = limit.remaining

----------------------------------------------------------------------------
(* Concurrent /analyze requests.                                           *)

AtLastAwait(c, user_id) ==
    in_flight[c] = Suspended(user_id, "generate_sample_clauses")

PassesQuotaCheck(user_id) ==
    /\ check_user_access(user_id).kind = "ok"
    /\ check_user_access(user_id).has_access

(* C20 as stated: two concurrent /analyze requests of one non-bypassed    *)
(* user, interleaved only at the awaited LLM calls, both pass the quota   *)
(* check and leave the consumed-id list longer than the quota: when one   *)
(* of them resumes and consumes the user's last analysis, the other,      *)
(* still suspended, passes the quota check as well.                       *)
C20_RaceOverruns ==
    [][\A c \in Coroutines, user_id \in Users :
           (/\ ~should_bypass_test_user(user_id)
            /\ AtLastAwait(c, user_id)
            /\ in_flight'[c] = in_flight[c]
            /\ PassesQuotaCheck(user_id)
            /\ Len(Consumed(user_id)) = FULL_ANALYSIS_LEASE_LIMIT - 1
            /\ Len(Consumed(user_id)') = FULL_ANALYSIS_LEASE_LIMIT)
           => PassesQuotaCheck(user_id)']_vars

(* C20, amended: the quota check and the recording of the consumed id run *)
(* with no suspension point between them, so concurrent /analyze requests *)
(* interleaved at the awaited LLM calls never leave a non-bypassed user's *)
(* consumed-id list longer than the quota of 5.                           *)
C20_RaceKeepsQuota ==
    \A user_id \in Users :
        ~should_bypass_test_user(user_id) =>
            Len(Consumed(user_id)) <= FULL_ANALYSIS_LEASE_LIMIT

(* Two requests of alice suspended at the last LLM call, one analysis     *)
(* left on her pass: either would pass the quota check if it ran now.     *)
C20_Witness ==
    /\ ~should_bypass_test_user("alice")
    /\ \A c \in Coroutines : AtLastAwait(c, "alice")
    /\ Len(Consumed("alice")) = FULL_ANALYSIS_LEASE_LIMIT - 1
    /\ PassesQuotaCheck("alice")

----------------------------------------------------------------------------
(* The stages of the analysis pipeline, one call at a time.  In these     *)
(* specifications the service is at rest and `call` holds one call of the *)
(* function examined: its arguments and, once it has returned, its result. *)

service == <<clock, config, quick, in_flight,
             ANALYSIS_STORE, USER_ACCESS_STORE, TRANSACTIONS_STORE>>

AtRest ==
    /\ clock = 0
    /\ tz = 8
    /\ TEST_USER_BYPASS = FALSE
    /\ TEST_USER_IDS = <<"">>
    /\ PADDLE_API_KEY = "sk"
    /\ ANALYSIS_STORE = EmptyDict
    /\ USER_ACCESS_STORE = EmptyDict
    /\ TRANSACTIONS_STORE = EmptyDict
    /\ QUICK_ANALYZE_RATE_LIMITS = EmptyDict
    /\ IP_RATE_LIMITS = EmptyDict
    /\ QUICK_CLAUSE_HISTORY = EmptyDict
    /\ in_flight = [c \in Coroutines |-> Idle]

Pending == [returned |-> FALSE]

Returned(value) == [returned |-> TRUE, value |-> value]

Range(seq) == {seq[i] : i \in DOMAIN seq}

----------------------------------------------------------------------------
(* analyze_lease, lines 601-658 and 780-792: the temporary files of one   *)
(* request.  An uploaded file is, by what happens to it:                  *)
(*   "rejected"     validate_file raises 400 (extension, size, empty);    *)
(*   "open_error"   open(file_path, "wb") fails: no file, 500;            *)
(*   "write_error"  the copy into the opened file fails: the file stays   *)
(*                  on disk, 500;                                         *)
(*   "image"        saved;                                                *)
(*   "pdf"          saved and rasterized into PdfPages page images;       *)
(*   "pdf_error"    saved; pdf_to_images fails after a page, unlinks the  *)
(*                  pages it wrote and raises.                            *)
(* A path is <<file index, "upload", 0>> or <<file index, "page", n>>.    *)

\* uploaded files per request
MaxFiles == 2

\* pages a PDF is rasterized into
PdfPages == 2

UploadKinds == {"rejected", "open_error", "write_error", "image", "pdf", "pdf_error"}

(* How the request goes on after its files are saved and rasterized. *)
AnalyzeExits ==
    {"too_many_pages", "ocr_raise", "ocr_empty", "llm_raise", "denied", "success"}

upload_path(i) == <<i, "upload", 0>>

page_path(i, n) == <<i, "page", n>>

page_paths(i) == [n \in 1..PdfPages |-> page_path(i, n)]

(* Lines 615-634: the loop over the uploaded files.  `temp` is            *)
(* temp_image_paths and `disk` the files in UPLOAD_DIR.                   *)
RECURSIVE save_and_rasterize(_, _, _, _)
save_and_rasterize(files, i, temp, disk) ==
    IF i > Len(files)
    THEN [raised |-> FALSE, temp_image_paths |-> temp, disk |-> disk]
    ELSE CASE files[i] \in {"rejected", "open_error"} ->
                  [raised |-> TRUE, temp_image_paths |-> temp, disk |-> disk]
           [] files[i] = "write_error" ->
                  [raised |-> TRUE, temp_image_paths |-> temp,
                   disk |-> disk \cup {upload_path(i)}]
           [] files[i] = "image" ->
                  save_and_rasterize(files, i + 1, Append(temp, upload_path(i)),
                                     disk \cup {upload_path(i)})
           [] files[i] = "pdf" ->
                  save_and_rasterize(files, i + 1,
                                     Append(temp, upload_path(i)) \o page_paths(i),
                                     disk \cup {upload_path(i)} \cup Range(page_paths(i)))
           [] files[i] = "pdf_error" ->
                  [raised |-> TRUE, temp_image_paths |-> Append(temp, upload_path(i)),
                   disk |-> disk \cup {upload_path(i)}]

(* cleanup_file for every entry of temp_image_paths (the finally clause). *)
cleanup_files(temp_image_paths, disk) == disk \ Range(temp_image_paths)

(* The files a request leaves in UPLOAD_DIR when it has finished: every   *)
(* exit, raised or returned, passes through the finally clause.           *)
analyze_lease_files(files, exit) ==
    LET loop == save_and_rasterize(files, 1, <<>>, {})
    IN  [finished_by |-> IF loop.raised THEN "raised_in_loop" ELSE exit,
         UPLOAD_DIR  |-> cleanup_files(loop.temp_image_paths, loop.disk)]

UploadCalls ==
    {[fn |-> "analyze_lease", files |-> files, exit |-> exit, result |-> Pending] :
        files \in UNION {[1..n -> UploadKinds] : n \in 1..MaxFiles},
        exit \in AnalyzeExits}

InitUploads == AtRest /\ call \in UploadCalls

AnalyzeUploads ==
    /\ call.fn = "analyze_lease"
    /\ ~call.result.returned
    /\ call' = [call EXCEPT !.result = Returned(analyze_lease_files(call.files, call.exit))]
    /\ UNCHANGED service

SpecUploads == InitUploads /\ [][AnalyzeUploads]_vars

(* C21: when an /analyze request has finished, by whatever path, every    *)
(* uploaded file saved for it and every page image rasterized from it has *)
(* been deleted: no temporary file created by the request remains.        *)
C21_NoTempFileRemains ==
    (call.fn = "analyze_lease" /\ call.result.returned)
        => call.result.value.UPLOAD_DIR = {}


----------------------------------------------------------------------------
(* C22: each successful /analyze creates exactly one new ANALYSIS_STORE    *)
(* entry, under an id no entry had, owned by the requesting user; and no   *)
(* step of the service (a later analyze, a full-report, a webhook, a       *)
(* check) modifies, re-keys or removes an entry that exists.               *)
Succeeds(u, req) ==
    /\ analyze_lease(u, req).response.status = 200
    /\ analyze_lease(u, req).response.body = "full_analysis"

OneEntryCreated(u, stored) ==
    \E id \in DOMAIN stored \ DOMAIN ANALYSIS_STORE :
        /\ DOMAIN stored = DOMAIN ANALYSIS_STORE \cup {id}
        /\ stored[id]["user_id"] = u
        /\ \A other \in DOMAIN ANALYSIS_STORE : stored[other] = ANALYSIS_STORE[other]

EntriesKept ==
    \A id \in DOMAIN ANALYSIS_STORE :
        id \in DOMAIN ANALYSIS_STORE' /\ ANALYSIS_STORE'[id] = ANALYSIS_STORE[id]

C22_AnalysisEntries ==
    /\ [](\A u \in Users, req \in AnalyzeRequests :
             Succeeds(u, req) => OneEntryCreated(u, analyze_lease(u, req).ANALYSIS_STORE))
    /\ [][ /\ EntriesKept
            /\ (ANALYSIS_STORE' # ANALYSIS_STORE) =>
                  \E u \in Users, req \in AnalyzeRequests :
                     Succeeds(u, req) /\ Analyze(u, req)
          ]_vars

(* Two users own analyses, one of them two taken at different times, and *)
(* a pass has been granted since.                                        *)
C22_Witness ==
    /\ \E u \in Users : <<u, 2>> \in DOMAIN ANALYSIS_STORE
                        /\ ANALYSIS_STORE[<<u, 2>>] # ANALYSIS_STORE[<<u, 1>>]
    /\ \A u \in Users : <<u, 1>> \in DOMAIN ANALYSIS_STORE
    /\ \E u \in Users : u \in DOMAIN USER_ACCESS_STORE
                        /\ "expires_at" \in DOMAIN USER_ACCESS_STORE[u]


----------------------------------------------------------------------------
(* utils/text_parser.py: filter_and_extract_high_risk_clauses.  A text is *)
(* the sequence of its characters; a clause is a mapping that may lack    *)
(* either field (clause.get supplies "").  A character outside ASCII is  *)
(* written as its code point.                                             *)
money_termination_keywords ==
    {<<"r", "e", "n", "t">>,
     <<"f", "e", "e">>,
     <<"d", "e", "p", "o", "s", "i", "t">>,
     <<"t", "e", "r", "m", "i", "n", "a", "t", "i", "o", "n">>,
     <<"t", "e", "r", "m", "i", "n", "a", "t", "e">>,
     <<"p", "e", "n", "a", "l", "t", "y">>,
     <<"c", "h", "a", "r", "g", "e">>,
     <<"p", "a", "y", "m", "e", "n", "t">>,
     <<"l", "a", "t", "e">>,
     <<"e", "v", "i", "c", "t">>,
     <<"b", "r", "e", "a", "k">>,
     <<"c", "a", "n", "c", "e", "l">>,
     <<"U+79DF", "U+91D1">>,
     <<"U+8D39", "U+7528">>,
     <<"U+62BC", "U+91D1">>,
     <<"U+7EC8", "U+6B62">>,
     <<"U+8FDD", "U+7EA6">>,
     <<"U+7F5A", "U+6B3E">>,
     <<"U+6EDE", "U+7EB3", "U+91D1">>,
     <<"U+89E3", "U+7EA6">>}

ascii_uppercase == <<"A", "B", "C", "D", "E", "F", "G", "H", "I", "J", "K", "L", "M", "N", "O", "P", "Q", "R", "S", "T", "U", "V", "W", "X", "Y", "Z">>

ascii_lowercase == <<"a", "b", "c", "d", "e", "f", "g", "h", "i", "j", "k", "l", "m", "n", "o", "p", "q", "r", "s", "t", "u", "v", "w", "x", "y", "z">>

lower(text) ==
    [i \in DOMAIN text |->
        IF \E k \in DOMAIN ascii_uppercase : ascii_uppercase[k] = text[i]
        THEN ascii_lowercase[CHOOSE k \in DOMAIN ascii_uppercase : ascii_uppercase[k] = text[i]]
        ELSE text[i]]

isdigit(c) == c \in {"0", "1", "2", "3", "4", "5", "6", "7", "8", "9"}

(* kw in text *)
In(kw, text) ==
    \E i \in 1..(Len(text) - Len(kw) + 1) : SubSeq(text, i, i + Len(kw) - 1) = kw

(* re.search(r"\d{1,2}[/-]\d{1,2}[/-]\d{2,4}", text) *)
has_date_pattern(text) ==
    \E i \in DOMAIN text, a \in 1..2, b \in 1..2 :
        LET s1 == i + a
            s2 == s1 + 1 + b
        IN  /\ s2 + 2 <= Len(text)
            /\ \A k \in i..(s1 - 1) : isdigit(text[k])
            /\ text[s1] \in {"/", "-"}
            /\ \A k \in (s1 + 1)..(s2 - 1) : isdigit(text[k])
            /\ text[s2] \in {"/", "-"}
            /\ isdigit(text[s2 + 1]) /\ isdigit(text[s2 + 2])

(* shortest text that is never treated as noise *)
NoiseLength == 15

get(d, key, default) == IF key \in DOMAIN d THEN d[key] ELSE default

(* Lines 284-294: the clause is dropped as noise. *)
is_noise(clause) ==
    LET text == get(clause, "clause_text", <<>>)
        has_digits   == \E i \in DOMAIN text : isdigit(text[i])
        has_currency == \E i \in DOMAIN text : text[i] \in {"$", "U+20AC", "U+00A3", "U+00A5"}
    IN  Len(text) < NoiseLength /\ ~(has_digits \/ has_currency \/ has_date_pattern(text))

(* Variant: every caution clause is high-risk. *)
is_high_risk_any_caution(clause) ==
    get(clause, "risk_level", "") \in {"danger", "caution"}

(* Lines 298-302: the kept clause is appended to high_risk. *)
is_high_risk(clause) ==
    LET text == get(clause, "clause_text", <<>>)
        text_lower == lower(text)
        risk == get(clause, "risk_level", "")
    IN  \/ risk = "danger"
        \/ /\ risk = "caution"
           /\ \E kw \in money_termination_keywords : In(kw, text_lower) \/ In(kw, text)

(* Variant: the clause before a noise clause is dropped with it. *)
RECURSIVE filter_loop_drops_neighbour(_, _, _)
filter_loop_drops_neighbour(clauses, filtered, high_risk) ==
    IF clauses = <<>>
    THEN [filtered |-> filtered, high_risk |-> high_risk]
    ELSE LET clause == Head(clauses) IN
         IF is_noise(clause)
         THEN filter_loop_drops_neighbour(Tail(clauses),
                  IF filtered = <<>> THEN filtered ELSE Front(filtered), <<>>)
         ELSE filter_loop_drops_neighbour(Tail(clauses), Append(filtered, clause),
                          IF is_high_risk(clause) THEN Append(high_risk, clause)
                          ELSE high_risk)

(* Variant: high-risk clauses are collected most recent first. *)
RECURSIVE filter_loop_newest_first(_, _, _)
filter_loop_newest_first(clauses, filtered, high_risk) ==
    IF clauses = <<>>
    THEN [filtered |-> filtered, high_risk |-> high_risk]
    ELSE LET clause == Head(clauses) IN
         IF is_noise(clause)
         THEN filter_loop_newest_first(Tail(clauses), filtered, high_risk)
         ELSE filter_loop_newest_first(Tail(clauses), Append(filtered, clause),
                          IF is_high_risk(clause) THEN <<clause>> \o high_risk
                          ELSE high_risk)

RECURSIVE filter_loop(_, _, _)
filter_loop(clauses, filtered, high_risk) ==
    IF clauses = <<>>
    THEN [filtered |-> filtered, high_risk |-> high_risk]
    ELSE LET clause == Head(clauses) IN
         IF is_noise(clause)
         THEN filter_loop(Tail(clauses), filtered, high_risk)
         ELSE filter_loop(Tail(clauses), Append(filtered, clause),
                          IF is_high_risk(clause) THEN Append(high_risk, clause)
                          ELSE high_risk)

filter_and_extract_high_risk_clauses(clauses) == filter_loop(clauses, <<>>, <<>>)

(* The texts tried: a keyword too short to keep, short texts saved by a *)
(* digit, a currency sign or a date, keywords in either case and        *)
(* script, and full sentences.                                          *)
ClauseTexts ==
    {<<"r", "e", "n", "t">>,
     <<"R", "e", "n", "t", " ", "$", "5">>,
     <<"F", "e", "e", ":", " ", "U+20AC">>,
     <<"U+79DF", "U+91D1", " ", "1", "/", "2", "/", "2", "5">>,
     <<"T", "e", "n", "a", "n", "t", " ", "s", "h", "a", "l", "l", " ", "k", "e", "e", "p", " ", "q", "u", "i", "e", "t", ".">>,
     <<"A", " ", "L", "A", "T", "E", " ", "F", "E", "E", " ", "a", "p", "p", "l", "i", "e", "s", " ", "m", "o", "n", "t", "h", "l", "y", ".">>}

RiskLevels == {"safe", "caution", "danger"}

(* clauses in one call *)
MaxClauses == 3

Clauses ==
    [clause_text : ClauseTexts, risk_level : RiskLevels]
    \cup {[risk_level |-> "danger"]}
    \cup {[clause_text |-> <<"r", "e", "n", "t", " ", "1">>]}

FilterCalls ==
    {[fn |-> "filter_and_extract_high_risk_clauses", clauses |-> clauses, result |-> Pending] :
        clauses \in UNION {[1..n -> Clauses] : n \in 0..MaxClauses}}

InitFilter == AtRest /\ call \in FilterCalls

FilterClauses ==
    /\ call.fn = "filter_and_extract_high_risk_clauses"
    /\ ~call.result.returned
    /\ call' = [call EXCEPT !.result =
                   Returned(filter_and_extract_high_risk_clauses(call.clauses))]
    /\ UNCHANGED service

SpecFilter == InitFilter /\ [][FilterClauses]_vars

Filtered == call.fn = "filter_and_extract_high_risk_clauses" /\ call.result.returned

(* C23: filter_and_extract_high_risk_clauses is idempotent: applied to the *)
(* list it kept, it keeps the same list and finds the same high-risk list. *)
C23_FilterIdempotent ==
    Filtered =>
        filter_and_extract_high_risk_clauses(call.result.value.filtered) = call.result.value

(* a call that dropped a clause, kept two and found one of them high-risk *)
C23_Witness ==
    /\ Filtered
    /\ Len(call.result.value.filtered) = 2
    /\ Len(call.clauses) = 3
    /\ Len(call.result.value.high_risk) = 1


(* s is t with some elements left out, the others in their order *)
RECURSIVE IsSubSequence(_, _)
IsSubSequence(s, t) ==
    IF s = <<>> THEN TRUE
    ELSE IF t = <<>> THEN FALSE
    ELSE IF Head(s) = Head(t) THEN IsSubSequence(Tail(s), Tail(t))
    ELSE IsSubSequence(s, Tail(t))

(* C24: the kept list is a sub-sequence of the input, in input order, and *)
(* the high-risk list is a sub-sequence of the kept list, in its order.   *)
C24_SubSequences ==
    Filtered =>
        /\ IsSubSequence(call.result.value.filtered, call.clauses)
        /\ IsSubSequence(call.result.value.high_risk, call.result.value.filtered)

(* three different clauses kept, the first and the last of them high-risk *)
C24_Witness ==
    /\ Filtered
    /\ Len(call.result.value.filtered) = 3
    /\ Cardinality(Range(call.result.value.filtered)) = 3
    /\ call.result.value.high_risk =
          <<call.result.value.filtered[1], call.result.value.filtered[3]>>

HasKeyword(clause) ==
    LET text == get(clause, "clause_text", <<>>) IN
    \E kw \in money_termination_keywords : In(kw, text) \/ In(kw, lower(text))

(* C25: a kept clause is in the high-risk list exactly when its risk level *)
(* is danger, or is caution and its text contains one of the keywords; a   *)
(* safe clause is never in the high-risk list.                             *)
C25_HighRiskRule ==
    Filtered =>
        \A i \in DOMAIN call.result.value.filtered :
            LET clause == call.result.value.filtered[i]
                risk   == get(clause, "risk_level", "")
            IN  /\ Contains(call.result.value.high_risk, clause) <=>
                      (risk = "danger" \/ (risk = "caution" /\ HasKeyword(clause)))
                /\ risk = "safe" => ~Contains(call.result.value.high_risk, clause)

(* kept together: a safe clause with a keyword, a caution clause without *)
(* one, and a caution clause with one, only the last of them high-risk   *)
C25_Witness ==
    /\ Filtered
    /\ \E i, j, k \in DOMAIN call.result.value.filtered :
          LET kept == call.result.value.filtered IN
          /\ get(kept[i], "risk_level", "") = "safe" /\ HasKeyword(kept[i])
          /\ get(kept[j], "risk_level", "") = "caution" /\ ~HasKeyword(kept[j])
          /\ get(kept[k], "risk_level", "") = "caution" /\ HasKeyword(kept[k])
          /\ call.result.value.high_risk = <<kept[k]>>


----------------------------------------------------------------------------
(* What an LLM adapter call yields.  A JSON value is tagged with its type; *)
(* an object is a function from its keys to JSON values.  The text of a    *)
(* reply is the sequence of its lines: a line that opens or closes a code  *)
(* fence, a line "```<payload>```" fenced on the line itself, or a line    *)
(* holding a payload, which is a JSON document or is not.                  *)
JNull == [type |-> "null"]

JBool(b) == [type |-> "bool", b |-> b]

JNumber(n) == [type |-> "number", n |-> n]

JString(s) == [type |-> "string", s |-> s]

JList(items) == [type |-> "list", items |-> items]

JObject(fields) == [type |-> "object", fields |-> fields]

NotJson == [type |-> "invalid"]

(* bool(value) *)
truthy(value) ==
    CASE value.type = "null"   -> FALSE
      [] value.type = "bool"   -> value.b
      [] value.type = "number" -> value.n # 0
      [] value.type = "string" -> value.s # ""
      [] value.type = "list"   -> value.items # <<>>
      [] value.type = "object" -> DOMAIN value.fields # {}
      [] OTHER                 -> FALSE

(* dict.get(key, default) on a JSON object *)
dict_get(object, key, default) ==
    IF key \in DOMAIN object.fields THEN object.fields[key] ELSE default

FenceLine == [line |-> "fence"]

InlineFenced(payload) == [line |-> "inline_fenced", payload |-> payload]

HalfFenced(payload) == [line |-> "half_fenced", payload |-> payload]

Body(payload) == [line |-> "body", payload |-> payload]

startswith_fence(text) ==
    text # <<>> /\ text[1].line \in {"fence", "inline_fenced", "half_fenced"}

endswith_fence(text) ==
    text # <<>> /\ text[Len(text)].line \in {"fence", "inline_fenced"}

(* clean.split("\n", 1)[1] if "\n" in clean else clean *)
drop_first_line(text) == IF Len(text) > 1 THEN Tail(text) ELSE text

(* clean.rsplit("```", 1)[0] *)
drop_last_fence(text) ==
    IF text[Len(text)].line = "fence"
    THEN Front(text)
    ELSE Append(Front(text), HalfFenced(text[Len(text)].payload))

(* Lines 230-234 and 343-353: the reply without its code fence. *)
strip_fence(text) ==
    LET clean == IF startswith_fence(text) THEN drop_first_line(text) ELSE text
    IN  IF endswith_fence(clean) THEN drop_last_fence(clean) ELSE clean

(* json.loads: the document, or NotJson for json.JSONDecodeError *)
json_loads(text) ==
    IF Len(text) = 1 /\ text[1].line = "body" THEN text[1].payload ELSE NotJson

(* The ways a reply wraps a payload. *)
Wrappings == {"bare", "fenced", "unclosed_fence", "inline_fenced"}

wrap(wrapping, payload) ==
    CASE wrapping = "bare"           -> <<Body(payload)>>
      [] wrapping = "fenced"         -> <<FenceLine, Body(payload), FenceLine>>
      [] wrapping = "unclosed_fence" -> <<FenceLine, Body(payload)>>
      [] wrapping = "inline_fenced"  -> <<InlineFenced(payload)>>

(* deepseek_client.chat.completions.create raised *)
AdapterRaised == [raised |-> TRUE]

(* message.content: None, or a text (the empty text has no line) *)
AdapterReplied(content) == [raised |-> FALSE, content |-> content]

NoContent == <<[line |-> "none"]>>


content_or(content, default) == IF content = NoContent \/ content = <<>> THEN default ELSE content

----------------------------------------------------------------------------
(* routes/lease_routes.py: generate_sample_clauses and the batch adapter   *)
(* calls it makes.                                                         *)
EmptyObject == JObject(<<>>)

SkipMarker == JObject([_skip |-> JBool(TRUE)])

(* Lines 357-366: one entry per item of a parsed list. *)
batch_entry(item) ==
    IF item.type = "object"
    THEN IF truthy(dict_get(item, "skip", JNull)) THEN SkipMarker ELSE item
    ELSE EmptyObject

(* Lines 307-378.  Returns the list of per-clause objects. *)
get_bilingual_analysis_batch(clause_data, reply) ==
    IF clause_data = <<>>
    THEN <<>>
    ELSE IF reply.raised
    THEN [i \in DOMAIN clause_data |-> EmptyObject]
    ELSE LET result == content_or(reply.content, <<>>)
             parsed == json_loads(strip_fence(result))
         IN  IF parsed.type = "list"
             THEN [i \in DOMAIN parsed.items |-> batch_entry(parsed.items[i])]
             ELSE IF parsed.type = "object"
             THEN <<batch_entry(parsed)>>
             ELSE [i \in DOMAIN clause_data |-> EmptyObject]

(* Lines 270-303: one explanation per text, "" where the reply has none *)
(* or the call failed.                                                  *)
get_chinese_explanation_batch(texts, explained) ==
    [i \in DOMAIN texts |-> IF explained THEN "explained" ELSE ""]

(* The placeholder texts of lines 528-535; the Chinese ones are named. *)
DefaultAnalysisEn == JString("This clause has been analyzed for potential concerns.")

DefaultAnalysisZh == JString("analysis_zh placeholder")

DefaultSuggestionEn == JString("Review this clause carefully before signing.")

DefaultSuggestionZh == JString("suggestion_zh placeholder")

(* Lines 493-510: the sampled clauses, numbered from 1.  A sampled        *)
(* paragraph comes with the risk level drawn for it and the category      *)
(* classify_clause gives it.                                              *)
clause_data_for_analysis(sampled) ==
    [i \in DOMAIN sampled |->
        [clause_text   |-> sampled[i].clause_text,
         risk_level    |-> sampled[i].risk_level,
         category      |-> sampled[i].category,
         clause_number |-> i]]

(* Lines 528-551: the clause built from one sampled clause. *)
final_clause(data, bilingual, chinese_explanation) ==
    LET analysis_en   == dict_get(bilingual, "analysis_en", DefaultAnalysisEn)
        suggestion_en == dict_get(bilingual, "suggestion_en", DefaultSuggestionEn)
    IN  [clause_number       |-> data.clause_number,
         clause_text         |-> data.clause_text,
         category            |-> data.category,
         risk_level          |-> data.risk_level,
         chinese_explanation |-> chinese_explanation,
         analysis_en         |-> analysis_en,
         analysis_zh         |-> dict_get(bilingual, "analysis_zh", DefaultAnalysisZh),
         suggestion_en       |-> suggestion_en,
         suggestion_zh       |-> dict_get(bilingual, "suggestion_zh", DefaultSuggestionZh),
         analysis            |-> analysis_en,
         suggestion          |-> suggestion_en]

(* Variant: a skipped clause is emitted with the placeholder texts. *)
RECURSIVE build_clauses_keeps_skipped(_, _, _, _, _)
build_clauses_keeps_skipped(clause_data, bilingual_analyses, chinese_explanations, i, clauses) ==
    IF i > Len(clause_data)
    THEN clauses
    ELSE LET bilingual == IF i <= Len(bilingual_analyses) THEN bilingual_analyses[i]
                          ELSE EmptyObject
         IN  build_clauses_keeps_skipped(clause_data, bilingual_analyses, chinese_explanations, i + 1,
                 Append(clauses,
                        final_clause(clause_data[i],
                                     IF truthy(dict_get(bilingual, "_skip", JNull))
                                     THEN EmptyObject ELSE bilingual,
                                     chinese_explanations[i])))

(* Lines 521-552: for i, data in enumerate(clause_data_for_analysis). *)
RECURSIVE build_clauses(_, _, _, _, _)
build_clauses(clause_data, bilingual_analyses, chinese_explanations, i, clauses) ==
    IF i > Len(clause_data)
    THEN clauses
    ELSE LET bilingual == IF i <= Len(bilingual_analyses) THEN bilingual_analyses[i]
                          ELSE EmptyObject
         IN  IF truthy(dict_get(bilingual, "_skip", JNull))
             THEN build_clauses(clause_data, bilingual_analyses, chinese_explanations, i + 1,
                                clauses)
             ELSE build_clauses(clause_data, bilingual_analyses, chinese_explanations, i + 1,
                      Append(clauses,
                             final_clause(clause_data[i], bilingual, chinese_explanations[i])))

generate_sample_clauses(sampled, reply, explained) ==
    LET clause_data == clause_data_for_analysis(sampled)
        bilingual_analyses == get_bilingual_analysis_batch(clause_data, reply)
        chinese_explanations ==
            get_chinese_explanation_batch([i \in DOMAIN clause_data |-> clause_data[i].clause_text],
                                          explained)
    IN  build_clauses(clause_data, bilingual_analyses, chinese_explanations, 1, <<>>)

(* clauses sampled in one call *)
MaxSampled == 2

SampledParagraphs ==
    {[clause_text |-> "Tenant shall pay rent monthly.", risk_level |-> "caution",
      category |-> "core_term"],
     [clause_text |-> "--- Page 2 ---", risk_level |-> "safe", category |-> "meta"]}

FullItem ==
    [analysis_en   |-> JString("en"), analysis_zh   |-> JString("zh"),
     suggestion_en |-> JString("do"), suggestion_zh |-> JString("zuo")]

(* The per-clause items tried: not an object, the empty object, a skip   *)
(* with and without content, an explicit non-skip, all fields, a field   *)
(* missing, a field null.                                                *)
BatchItems ==
    {JString("n/a"),
     EmptyObject,
     JObject([skip |-> JBool(TRUE)]),
     JObject([skip |-> JBool(TRUE), analysis_en |-> JString("en")]),
     JObject([skip |-> JBool(FALSE), analysis_en |-> JString("en")]),
     JObject(FullItem),
     JObject([analysis_en |-> JString("en"), suggestion_en |-> JString("do"),
              suggestion_zh |-> JString("zuo")]),
     JObject([FullItem EXCEPT !.suggestion_en = JNull])}

BatchLists ==
    {JList(items) : items \in UNION {[1..n -> BatchItems] : n \in 0..(MaxSampled + 1)}}

BatchReplies ==
    {AdapterRaised, AdapterReplied(NoContent), AdapterReplied(<<>>)}
    \cup {AdapterReplied(wrap(wrapping, payload)) :
             wrapping \in Wrappings, payload \in {NotJson, JNull, JNumber(1)} \cup BatchItems}
    \cup {AdapterReplied(wrap(wrapping, payload)) :
             wrapping \in {"bare", "fenced"}, payload \in BatchLists}

SampleCalls ==
    {[fn |-> "generate_sample_clauses", sampled |-> sampled, reply |-> reply,
      explained |-> explained, result |-> Pending] :
        sampled \in UNION {[1..n -> SampledParagraphs] : n \in 0..MaxSampled},
        reply \in BatchReplies, explained \in BOOLEAN}

InitSample == AtRest /\ call \in SampleCalls

GenerateSampleClauses ==
    /\ call.fn = "generate_sample_clauses"
    /\ ~call.result.returned
    /\ call' = [call EXCEPT !.result =
                   Returned(generate_sample_clauses(call.sampled, call.reply, call.explained))]
    /\ UNCHANGED service

SpecSample == InitSample /\ [][GenerateSampleClauses]_vars

Sampled == call.fn = "generate_sample_clauses" /\ call.result.returned

(* What the adapter said about the i-th clause: the i-th item of the list *)
(* it sent, or the object it sent in place of a list for the first.       *)
AdapterItem(i) ==
    IF call.reply.raised \/ call.reply.content = NoContent
    THEN NotJson
    ELSE LET sent == json_loads(strip_fence(call.reply.content)) IN
         IF sent.type = "list"
         THEN IF i <= Len(sent.items) THEN sent.items[i] ELSE NotJson
         ELSE IF sent.type = "object" /\ i = 1 THEN sent
         ELSE NotJson

SignalledSkip(i) ==
    AdapterItem(i).type = "object" /\ truthy(dict_get(AdapterItem(i), "skip", JNull))

(* C26: a sampled clause for which the adapter signalled skip is not in   *)
(* the returned list, and every other sampled clause is, in sampling      *)
(* order with its own clause number and text.                             *)
C26_SkippedNeverEmitted ==
    Sampled =>
        LET clauses == call.result.value
            kept    == {i \in DOMAIN call.sampled : ~SignalledSkip(i)}
        IN  /\ {clauses[k].clause_number : k \in DOMAIN clauses} = kept
            /\ Len(clauses) = Cardinality(kept)
            /\ \A k \in DOMAIN clauses :
                  /\ k < Len(clauses) => clauses[k].clause_number < clauses[k + 1].clause_number
                  /\ clauses[k].clause_text = call.sampled[clauses[k].clause_number].clause_text

(* two clauses sampled, the adapter skipped the first and analysed the *)
(* second, which is returned as clause 2                                *)
C26_Witness ==
    /\ Sampled
    /\ Len(call.sampled) = 2
    /\ SignalledSkip(1) /\ ~SignalledSkip(2)
    /\ AdapterItem(2).type = "object"
    /\ Len(call.result.value) = 1
    /\ call.result.value[1].clause_number = 2

(* C30: every clause returned by generate_sample_clauses has a non-null   *)
(* analysis_en, analysis_zh, suggestion_en and suggestion_zh, whatever    *)
(* the adapter sent for the clause.                                       *)
C30_FieldsNeverNull ==
    Sampled =>
        \A k \in DOMAIN call.result.value :
            \A field \in {"analysis_en", "analysis_zh", "suggestion_en", "suggestion_zh"} :
                call.result.value[k][field] # JNull


----------------------------------------------------------------------------
(* The lease summary: extract_lease_summary_llm, validate_summary_response *)
(* and the choice of key_info in analyze_lease (lines 670-680).  Python    *)
(* values are written as JSON values (None is JNull).  Numbers are whole;  *)
(* a string that is the text of a number or of a date carries what it      *)
(* denotes; a date is a day number.                                        *)
JNumberText(n) == [type |-> "string", s |-> "number", n |-> n]

JDateText(format, day) == [type |-> "string", s |-> "date", format |-> format, day |-> day]

(* Lines 211-245.  Returns whatever json.loads returned, {} on failure. *)
extract_lease_summary_llm(reply) ==
    IF reply.raised
    THEN EmptyObject
    ELSE LET raw_content == content_or(reply.content, <<Body(EmptyObject)>>)
             parsed == json_loads(strip_fence(raw_content))
         IN  IF parsed = NotJson THEN EmptyObject ELSE parsed

(* utils/text_parser.py lines 132-143 *)
parse_numeric(value) ==
    CASE value.type = "null"   -> JNull
      [] value.type = "bool"   -> JNumber(IF value.b THEN 1 ELSE 0)
      [] value.type = "number" -> value
      [] value.type = "string" -> IF value.s = "number" THEN JNumber(value.n) ELSE JNull
      [] OTHER                 -> JNull

(* utils/text_parser.py lines 146-159: the date in ISO form, or None.  A  *)
(* string of the form dddd-dd-dd is returned as it is, a date or not.     *)
parse_iso_date(value) ==
    IF ~truthy(value) \/ value.type # "string" \/ value.s # "date"
    THEN JNull
    ELSE IF value.format \in {"iso", "iso_no_such_day"}
    THEN value
    ELSE JDateText("iso", value.day)

(* days in 100 months, for round((end - start).days / 30.44) *)
DaysPer100Months == 3044

(* round(days / 30.44): no whole number of days is half-way *)
round_months(days) == (100 * days + DaysPer100Months \div 2) \div DaysPer100Months

(* utils/text_parser.py lines 162-173 *)
calculate_duration_months(start_date, end_date) ==
    IF ~truthy(start_date) \/ ~truthy(end_date)
    THEN JNull
    ELSE IF start_date.format # "iso" \/ end_date.format # "iso"
    THEN JNull
    ELSE LET months == round_months(end_date.day - start_date.day) IN
         IF months > 0 THEN JNumber(months) ELSE JNull

(* int(duration), None for ValueError and TypeError *)
int_or_none(duration) ==
    CASE duration.type = "number" -> duration
      [] duration.type = "bool"   -> JNumber(IF duration.b THEN 1 ELSE 0)
      [] duration.type = "string" -> IF duration.s = "number" THEN JNumber(duration.n)
                                     ELSE JNull
      [] OTHER                    -> JNull

(* str.upper on the currency codes tried *)
upper(s) == CASE s = "usd" -> "USD" [] s = "eur" -> "EUR" [] OTHER -> s

(* utils/text_parser.py lines 176-214.  raw.get raises AttributeError when *)
(* raw is not a mapping.                                                   *)
validate_summary_response(raw) ==
    IF raw.type # "object"
    THEN [raised |-> "AttributeError"]
    ELSE LET currency0    == dict_get(raw, "currency", JNull)
             currency     == IF truthy(currency0) /\ currency0.type = "string"
                             THEN JString(upper(currency0.s)) ELSE JString("USD")
             monthly_rent == parse_numeric(dict_get(raw, "monthly_rent_amount", JNull))
             start_date   == parse_iso_date(dict_get(raw, "lease_start_date", JNull))
             end_date     == parse_iso_date(dict_get(raw, "lease_end_date", JNull))
             duration0    == dict_get(raw, "lease_duration_months", JNull)
             duration1    == IF truthy(start_date) /\ truthy(end_date) /\ ~truthy(duration0)
                             THEN calculate_duration_months(start_date, end_date)
                             ELSE duration0
             duration     == IF duration1 # JNull THEN int_or_none(duration1) ELSE JNull
             overall_risk0 == dict_get(raw, "overall_risk", JString("medium"))
             overall_risk == IF overall_risk0 \in {JString("low"), JString("medium"),
                                                   JString("high")}
                             THEN overall_risk0 ELSE JString("medium")
         IN  [raised |-> "no",
              summary |->
                 [overall_risk          |-> overall_risk,
                  monthly_rent_amount   |-> monthly_rent,
                  currency              |-> currency,
                  lease_start_date      |-> start_date,
                  lease_end_date        |-> end_date,
                  lease_duration_months |-> duration,
                  landlord_name         |-> dict_get(raw, "landlord_name", JNull),
                  tenant_name           |-> dict_get(raw, "tenant_name", JNull)]]

(* utils/text_parser.py lines 217-248 *)
build_key_info_from_summary(summary) ==
    [built_by    |-> "build_key_info_from_summary",
     rent_amount |-> IF summary.monthly_rent_amount # JNull
                     THEN <<summary.monthly_rent_amount, summary.currency>>
                     ELSE <<JString("Not found")>>,
     lease_term  |-> IF truthy(summary.lease_start_date) /\ truthy(summary.lease_end_date)
                     THEN <<summary.lease_start_date, summary.lease_end_date,
                            summary.lease_duration_months>>
                     ELSE IF truthy(summary.lease_duration_months)
                     THEN <<summary.lease_duration_months>>
                     ELSE <<JString("Not found")>>,
     start_date  |-> IF truthy(summary.lease_start_date) THEN summary.lease_start_date
                     ELSE JString("Not found")]

(* utils/text_parser.py extract_key_info: the regex extractor, which reads *)
(* the OCR text only.                                                      *)
extract_key_info == [built_by |-> "extract_key_info"]

(* routes/lease_routes.py lines 670-680 and 783-788: the summary stage of *)
(* analyze_lease.  An exception ends the request with                     *)
(* {"success": False, "error": ...}.                                      *)
summary_stage(reply) ==
    LET raw_summary == extract_lease_summary_llm(reply)
        validated   == validate_summary_response(raw_summary)
    IN  IF validated.raised # "no"
        THEN [raw_summary |-> raw_summary, outcome |-> "success_false"]
        ELSE LET summary == validated.summary IN
             [raw_summary |-> raw_summary,
              outcome     |-> "continues",
              summary     |-> summary,
              key_info    |-> IF truthy(summary.monthly_rent_amount)
                                 \/ truthy(summary.lease_start_date)
                              THEN build_key_info_from_summary(summary)
                              ELSE extract_key_info]

JAbsent == [type |-> "absent"]

(* the object with the given keys, without those whose value is JAbsent *)
object_of(fields) ==
    JObject([key \in {k \in DOMAIN fields : fields[k] # JAbsent} |-> fields[key]])

(* The summaries tried, field by field. *)
RentValues ==
    {JAbsent, JNull, JNumber(0), JNumber(1200), JNumberText(1200), JString("market rate")}

StartDates == {JAbsent, JDateText("iso", 0), JDateText("us", 0), JString("soon")}

(* end dates 30 days before the start, and 15, 16 and 365 days after it *)
EndDates ==
    {JAbsent, JDateText("iso", 0 - 30), JDateText("iso", 15), JDateText("iso", 16),
     JDateText("iso", 365), JDateText("iso_no_such_day", 0)}

Durations ==
    {JAbsent, JNull, JNumber(12), JNumber(0), JNumber(0 - 3), JNumberText(12),
     JString("a year"), JList(<<>>)}

Currencies == {JAbsent, JString("eur")}

SummaryObjects ==
    {object_of([monthly_rent_amount |-> rent, lease_start_date |-> start,
                lease_end_date |-> end, lease_duration_months |-> duration,
                currency |-> currency]) :
        rent \in RentValues, start \in StartDates, end \in EndDates,
        duration \in Durations, currency \in Currencies}

SummaryPayloads ==
    {NotJson, JNull, JNumber(1), JString("n/a"), JList(<<>>), JList(<<EmptyObject>>)}
    \cup SummaryObjects

SummaryReplies ==
    {AdapterRaised, AdapterReplied(NoContent), AdapterReplied(<<>>)}
    \cup {AdapterReplied(wrap(wrapping, payload)) :
             wrapping \in Wrappings, payload \in SummaryPayloads}

SummaryCalls ==
    {[fn |-> "summary_stage", reply |-> reply, result |-> Pending] : reply \in SummaryReplies}

InitSummary == AtRest /\ call \in SummaryCalls

SummaryStage ==
    /\ call.fn = "summary_stage"
    /\ ~call.result.returned
    /\ call' = [call EXCEPT !.result = Returned(summary_stage(call.reply))]
    /\ UNCHANGED service

SpecSummary == InitSummary /\ [][SummaryStage]_vars

Summarized == call.fn = "summary_stage" /\ call.result.returned

(* C27: lease_duration_months of the validated summary is None or a whole *)
(* number greater than 0, supplied directly or derived from the dates.    *)
C27_DurationPositive ==
    (Summarized /\ call.result.value.outcome = "continues") =>
        LET duration == call.result.value.summary.lease_duration_months IN
        duration = JNull \/ (duration.type = "number" /\ duration.n > 0)

(* the payload the adapter sent, NotJson when it sent none that parses *)
SentPayload ==
    IF call.reply.raised \/ call.reply.content = NoContent
    THEN NotJson
    ELSE json_loads(strip_fence(call.reply.content))

(* C28: whatever the adapter does, extract_lease_summary_llm returns a    *)
(* mapping, the empty one when the adapter sent no JSON object, and the   *)
(* request goes on, with the regex extractor's key_info when the mapping  *)
(* is empty.                                                              *)
C28_SummaryNeverFails ==
    Summarized =>
        /\ call.result.value.raw_summary.type = "object"
        /\ SentPayload.type # "object" => call.result.value.raw_summary = EmptyObject
        /\ call.result.value.outcome = "continues"
        /\ call.result.value.raw_summary = EmptyObject =>
              call.result.value.key_info = extract_key_info

(* C29: key_info is built from the validated summary exactly when the     *)
(* summary has a rent amount (any number, 0 included) or a start date.    *)
C29_KeyInfoSelection ==
    (Summarized /\ call.result.value.outcome = "continues") =>
        LET summary == call.result.value.summary IN
        (call.result.value.key_info.built_by = "build_key_info_from_summary")
            <=> (summary.monthly_rent_amount # JNull \/ summary.lease_start_date # JNull)


----------------------------------------------------------------------------
(* The entitlement engine with all its operations: the handlers of the    *)
(* entitlement machine and UserAccessManager.revoke_access, which no      *)
(* route calls but which the manager offers beside grant_access; on the *)
(* deployment of SpecService.                                             *)
RevokeAccess(user_id) ==
    /\ USER_ACCESS_STORE' = revoke_access(user_id)
    /\ UNCHANGED <<clock, config, call, in_flight, quick, ANALYSIS_STORE, TRANSACTIONS_STORE>>

NextEngine ==
    \/ NextAccess
    \/ \E u \in Users : RevokeAccess(u)

SpecEngine == InitService /\ [][NextEngine]_vars

(* the ids of the analyses stored for a user, oldest first *)
OwnedInOrder(user_id) ==
    [k \in 1..Cardinality(OwnedAnalyses(user_id)) |-> <<user_id, k>>]

(* C31: in every reachable state, each user's consumed-id list is the     *)
(* list of the ids of the stored analyses the user owns, in the order     *)
(* they were created.                                                     *)
C31_ConsumedMatchesStore ==
    \A u \in Users : Consumed(u) = OwnedInOrder(u)


(* C32: for every user, in every reachable state, the has_access reported *)
(* by GET /check-access (billing_routes) and by get_access_status (behind *)
(* /check-access/{user_id} of billing_routes_v2) equals the has_access    *)
(* the analysis gate's check_user_access computes at the same time.       *)
C32_CheckAccessAgreesWithGate ==
    \A u \in Users :
        check_user_access(u).kind = "ok" =>
            /\ billing_check_user_access(u).response.body.has_access
                  = check_user_access(u).has_access
            /\ get_access_status(u).has_access = check_user_access(u).has_access


(* C33: a full-report request for a stored analysis by a user who is not *)
(* its owner is answered 403, whatever that user's entitlement.          *)
C33_FullReportOwnerOnly ==
    \A id \in DOMAIN ANALYSIS_STORE, u \in Users :
        ANALYSIS_STORE[id]["user_id"] # u => get_full_report(id, u).response.status = 403

(* C34: a full-report request for a stored analysis by its owner is *)
(* answered 200 in every reachable state of the owner's entitlement. *)
C34_OwnerAlwaysGetsReport ==
    \A id \in DOMAIN ANALYSIS_STORE :
        get_full_report(id, ANALYSIS_STORE[id]["user_id"]).response.status = 200


(* handle_webhook writes paid_at / expires_at for the event's user *)
Grants(req) ==
    /\ handle_webhook(req).response.status = 200
    /\ req.body.event_type \in PAYMENT_SUCCESS_EVENTS
    /\ req.body.transaction_id # None
    /\ req.body.user_id # None

(* C35: whenever the v2 webhook handler grants a pass, TRANSACTIONS_STORE *)
(* then holds a record for the event's provider transaction id, owned by  *)
(* the user granted, in status completed.                                 *)
C35_GrantBackedByTransaction ==
    \A req \in WebhookRequests :
        Grants(req) =>
            LET store == handle_webhook(req).TRANSACTIONS_STORE
                tid   == req.body.transaction_id
            IN  /\ tid \in DOMAIN store
                /\ store[tid]["user_id"] = req.body.user_id
                /\ store[tid]["status"] = "completed"


----------------------------------------------------------------------------
(* Re-delivery of a webhook.  The payment provider sends an event again    *)
(* until it is acknowledged, so the same signed request reaches the        *)
(* handler twice.  `call` remembers the first delivery: the request, the   *)
(* router that took it, the hour, and what the stores held for its user    *)
(* and its transaction once the handler had returned.                      *)
Routers == {"v1", "v2"}

webhook_of(router, req) ==
    IF router = "v1" THEN paddle_webhook(req) ELSE handle_webhook(req)

entitlement_of(store, user_id) ==
    IF user_id \in DOMAIN store
    THEN [paid_at |-> store[user_id]["paid_at"], expires_at |-> store[user_id]["expires_at"]]
    ELSE [paid_at |-> None, expires_at |-> None]

status_of(store, transaction_id) ==
    IF transaction_id \in DOMAIN store THEN store[transaction_id]["status"] ELSE None

SuccessEvent(req) ==
    /\ req.body.json
    /\ req.signature = GoodSignature(req.body)
    /\ req.body.event_type \in PAYMENT_SUCCESS_EVENTS
    /\ req.body.transaction_id # None
    /\ req.body.user_id # None

Deliver(router, req) ==
    LET r == webhook_of(router, req) IN
    /\ call = NoCall
    /\ SuccessEvent(req)
    /\ r.response.status = 200
    /\ USER_ACCESS_STORE' = r.USER_ACCESS_STORE
    /\ TRANSACTIONS_STORE' = r.TRANSACTIONS_STORE
    /\ call' = [fn |-> "webhook", router |-> router, req |-> req, at |-> clock,
                deliveries |-> 1,
                entitlement |-> entitlement_of(r.USER_ACCESS_STORE, req.body.user_id),
                status |-> status_of(r.TRANSACTIONS_STORE, req.body.transaction_id)]
    /\ UNCHANGED <<clock, config, in_flight, quick, ANALYSIS_STORE>>

Redeliver ==
    /\ call.fn = "webhook"
    /\ call.deliveries = 1
    /\ LET r == webhook_of(call.router, call.req) IN
       /\ USER_ACCESS_STORE' = r.USER_ACCESS_STORE
       /\ TRANSACTIONS_STORE' = r.TRANSACTIONS_STORE
    /\ call' = [call EXCEPT !.deliveries = 2, !.at = clock]
    /\ UNCHANGED <<clock, config, in_flight, quick, ANALYSIS_STORE>>

(* Checkouts and earlier webhooks come before the first delivery; between  *)
(* the two deliveries only time passes.                                    *)
NextRedelivery ==
    \/ Tick
    \/ call = NoCall /\ \E u \in Users, p \in CheckoutProviders : CreateCheckout(u, p)
    \/ call = NoCall /\ \E req \in WebhookRequests : HandleWebhook(req)
    \/ call = NoCall /\ \E req \in WebhookRequests : PaddleWebhook(req)
    \/ \E router \in Routers, req \in WebhookRequests : Deliver(router, req)
    \/ Redeliver

SpecRedelivery == InitService /\ [][NextRedelivery]_vars

(* C36: a validly signed success event processed a second time, at a      *)
(* later time, leaves the entitlement record of its user (paid_at and     *)
(* expires_at) and the status of its transaction as the first delivery    *)
(* left them.                                                             *)
C36_RedeliveryIdempotent ==
    [][(Redeliver /\ clock > call.at) =>
          /\ entitlement_of(USER_ACCESS_STORE', call.req.body.user_id) = call.entitlement
          /\ status_of(TRANSACTIONS_STORE', call.req.body.transaction_id) = call.status]_vars


----------------------------------------------------------------------------
(* The windows check_rate_limit leaves behind for the identifier and the   *)
(* client host it was called with.                                          *)
WindowAfter(user_id, ip_address) ==
    Get(check_rate_limit(user_id, ip_address).QUICK_ANALYZE_RATE_LIMITS, user_id, <<>>)

IpWindowAfter(user_id, ip_address) ==
    Get(check_rate_limit(user_id, ip_address).IP_RATE_LIMITS, ip_address, <<>>)

WithinTrailingWindow(timestamps) ==
    \A i \in DOMAIN timestamps :
        timestamps[i] <= now /\ now - timestamps[i] <= QUICK_ANALYZE_WINDOW

NonDecreasing(timestamps) ==
    \A i, j \in DOMAIN timestamps : i <= j => timestamps[i] <= timestamps[j]

(* C37: whatever calls came before, with a clock that never goes back,    *)
(* immediately after a check_rate_limit call the window of the calling    *)
(* identifier holds at most 3 timestamps and the window of the calling IP *)
(* at most 20, every timestamp held lies within the trailing 24 hours,    *)
(* and each window is in non-decreasing time order.                       *)
C37_WindowsBoundedAndOrdered ==
    \A user_id \in QuickUsers, ip_address \in QuickHosts :
        LET user_requests == WindowAfter(user_id, ip_address)
            ip_requests   == IpWindowAfter(user_id, ip_address)
        IN  /\ Len(user_requests) <= QUICK_ANALYZE_USER_LIMIT
            /\ Len(ip_requests) <= QUICK_ANALYZE_IP_LIMIT
            /\ WithinTrailingWindow(user_requests) /\ WithinTrailingWindow(ip_requests)
            /\ NonDecreasing(user_requests) /\ NonDecreasing(ip_requests)

(* A call made once the clock has moved on, by an identifier at its cap    *)
(* on a host at its cap, both holding timestamps of two different hours.   *)
C37_Witness ==
    /\ Len(Recorded("alice")) = QUICK_ANALYZE_USER_LIMIT
    /\ Len(RecordedIp("10.0.0.1")) = QUICK_ANALYZE_IP_LIMIT
    /\ \E i, j \in DOMAIN Recorded("alice") : Recorded("alice")[i] < Recorded("alice")[j]
    /\ \E i, j \in DOMAIN RecordedIp("10.0.0.1") :
           RecordedIp("10.0.0.1")[i] < RecordedIp("10.0.0.1")[j]
    /\ \E i \in DOMAIN RecordedIp("10.0.0.1") : RecordedIp("10.0.0.1")[i] = now


----------------------------------------------------------------------------
(* Requests the handler turns away before it reaches the limiter: a clause *)
(* that is empty once stripped, and one of more than 250 characters.       *)
RejectedClauses == {"blank", "long"}

RejectedRequests ==
    [clause_text : RejectedClauses, x_user_id : QuickUsers \cup {None}, host : QuickHosts]

(* C38: a quick-analyze request answered 400, for a clause empty after    *)
(* trimming or longer than 250 characters, uses no quota and adds no      *)
(* history: the per-user counters, the per-IP counters and                *)
(* QUICK_CLAUSE_HISTORY are what they were, so the requests allowed       *)
(* before it are allowed after it.                                        *)
C38_RejectedLeavesNoTrace ==
    \A req \in RejectedRequests :
        LET r == quick_analyze_clause(req) IN
        /\ r.response.status = 400
        /\ r.QUICK_ANALYZE_RATE_LIMITS = QUICK_ANALYZE_RATE_LIMITS
        /\ r.IP_RATE_LIMITS = IP_RATE_LIMITS
        /\ r.QUICK_CLAUSE_HISTORY = QUICK_CLAUSE_HISTORY

(* alice has used part of her allowance, has history, and holds a         *)
(* timestamp the next call to the limiter would prune; a blank clause     *)
(* from her is answered 400 and a valid one would still be allowed.       *)
C38_Witness ==
    /\ Len(Recorded("alice")) = QUICK_ANALYZE_USER_LIMIT - 1
    /\ Len(Get(QUICK_CLAUSE_HISTORY, "alice", <<>>)) >= 1
    /\ \E i \in DOMAIN Recorded("alice") : Recorded("alice")[i] <= now - QUICK_ANALYZE_WINDOW
    /\ quick_analyze_clause([clause_text |-> "blank", x_user_id |-> "alice",
                             host |-> "10.0.0.1"]).response.status = 400
    /\ quick_analyze_clause(ValidQuickRequest("alice", "10.0.0.2")).response.status = 200


----------------------------------------------------------------------------
(* settings.should_bypass_test_user over the settings the environment can  *)
(* give and the user ids a form can carry.                                 *)
TestUserIdLists ==
    {<<"">>, <<" ">>, <<" alice ", " ">>, <<"alice", "", "bob">>,
     <<"test_use">>, <<"Test_user_1", "<tab>bob<lf>">>}

BypassCalls ==
    {[fn |-> "should_bypass_test_user", user_id |-> user_id, result |-> Pending] :
        user_id \in Texts}

InitBypass ==
    /\ clock = 0
    /\ tz = 8
    /\ TEST_USER_BYPASS \in BOOLEAN
    /\ TEST_USER_IDS \in TestUserIdLists
    /\ PADDLE_API_KEY = "sk"
    /\ ANALYSIS_STORE = EmptyDict
    /\ USER_ACCESS_STORE = EmptyDict
    /\ TRANSACTIONS_STORE = EmptyDict
    /\ QUICK_ANALYZE_RATE_LIMITS = EmptyDict
    /\ IP_RATE_LIMITS = EmptyDict
    /\ QUICK_CLAUSE_HISTORY = EmptyDict
    /\ in_flight = [c \in Coroutines |-> Idle]
    /\ call \in BypassCalls

ShouldBypassTestUser ==
    /\ call.fn = "should_bypass_test_user"
    /\ ~call.result.returned
    /\ call' = [call EXCEPT !.result = Returned(should_bypass_test_user(call.user_id))]
    /\ UNCHANGED service

SpecBypass == InitBypass /\ [][ShouldBypassTestUser]_vars

(* Whitespace characters on either side of a field of TEST_USER_IDS *)
MaxPadding == 1

BeginsWithTestUser(user_id) ==
    \E n \in 0..Len(chars(user_id)) : SubSeq(chars(user_id), 1, n) = chars("test_user")

TrimmedEntries ==
    {text \in Texts : \E i \in DOMAIN TEST_USER_IDS :
        /\ chars(text) # <<>>
        /\ Head(chars(text)) \notin Whitespace
        /\ chars(text)[Len(chars(text))] \notin Whitespace
        /\ \E left, right \in UNION {[1..n -> Whitespace] : n \in 0..MaxPadding} :
               chars(TEST_USER_IDS[i]) = left \o chars(text) \o right}

BypassReturned ==
    call.fn = "should_bypass_test_user" /\ call.result.returned

(* C39: with TEST_USER_BYPASS off, should_bypass_test_user is false for   *)
(* every user id, those beginning with "test_user" and those listed in    *)
(* TEST_USER_IDS included; with it on, it is true exactly for the ids     *)
(* that begin with "test_user" or equal a non-empty trimmed entry of      *)
(* TEST_USER_IDS.                                                         *)
C39_BypassOnlyWhenEnabledAndListed ==
    BypassReturned =>
        call.result.value =
            (TEST_USER_BYPASS /\ (BeginsWithTestUser(call.user_id)
                                  \/ call.user_id \in TrimmedEntries))

(* The flag is off and the id asked about is listed in TEST_USER_IDS. *)
C39_Witness ==
    /\ BypassReturned
    /\ ~TEST_USER_BYPASS
    /\ call.user_id = "alice"
    /\ TEST_USER_IDS = <<"alice", "", "bob">>


----------------------------------------------------------------------------
(* The timestamps of a window that a check made now finds no older than    *)
(* the window's start, now - 24 hours.                                      *)
NotOlderThanWindow(timestamps) ==
    SelectSeq(timestamps, LAMBDA ts : ts >= now - QUICK_ANALYZE_WINDOW)

(* C40: a check_rate_limit call prunes only the timestamps strictly older *)
(* than now - 24 hours: a timestamp exactly 24 hours old is kept and      *)
(* counts toward the user cap and the IP cap of that check.               *)
C40_BoundaryTimestampRetained ==
    \A user_id \in QuickUsers, ip_address \in QuickHosts :
        LET r    == check_rate_limit(user_id, ip_address)
            kept == NotOlderThanWindow(Recorded(user_id))
            ips  == NotOlderThanWindow(RecordedIp(ip_address))
        IN  /\ IsSubSequence(kept, WindowAfter(user_id, ip_address))
            /\ IsSubSequence(ips, IpWindowAfter(user_id, ip_address))
            /\ r.allowed = (Len(kept) < QUICK_ANALYZE_USER_LIMIT
                            /\ Len(ips) < QUICK_ANALYZE_IP_LIMIT)

============================================================================
